---- MODULE Spec2Model ----
(***************************************************************************)
(* A model of caddy-user-ip: the UserIPStorage tracking store              *)
(* (src/storage.go, the current revision at lines 277-780), the request    *)
(* handler that records sightings and the periodic persister               *)
(* (src/tracker.go).                                                       *)
(*                                                                         *)
(* Sequences are 1-based here and 0-based in Go: position 0 of a history   *)
(* is index 1 of the sequence that models it, and the code's foundIndex    *)
(* of -1 (not found) is 0.                                                 *)
(***************************************************************************)
EXTENDS Integers, Sequences, FiniteSets, TLC

\* ------------------------------------------------------------------------
\* Bounds of the model
\* ------------------------------------------------------------------------

\* max_ips_per_user is drawn from 1..MaxMaxIPs
MaxMaxIPs == 3

\* user_data_ttl is drawn from 0..MaxTTL seconds (0 disables expiry)
MaxTTL == 1

\* the clock runs from 0 to MaxTime seconds
MaxTime == 2

\* goroutines that were started with "go" and have not yet called
\* PersistToDisk
MaxPending == 3

\* file operations (os.WriteFile, os.Rename) that fail in one run
MaxIOFailures == 1

\* requests handled by ServeHTTP in one run of the whole system
MaxRequests == 2

\* Record calls in one run of the store alone
MaxRecords == 4

\* write goroutines that may wait while the store alone runs
MaxRecordWrites == 8

\* requests handled in one run of startup, requests and restarts
MaxLoadRequests == 2

\* seconds that pass in one run of startup, requests and restarts
MaxLoadTime == 1

\* requests handled in one run that ends with Cleanup
MaxShutdownRequests == 2

\* requests with X-Token-User-Email that the tracker records in one run of
\* the tracker and the matcher
MaxTracked == 2

\* AddUserIP calls made in one run of the calls that overlap
MaxConcurrentCalls == 3

\* the width of the integers of the model: uint64 and int64 have 64 bits in
\* the code and WordBits bits here
WordBits == 8

Principals == {"u1", "u2"}

IPs == {"1.1.1.1", "2.2.2.2", "3.3.3.3"}

\* the order in which encoding/json writes the keys of a map
PrincipalOrder == <<"u1", "u2">>

\* "no IP": the zero value of the string that holds an evicted IP
NoIP == ""

VARIABLES
    userData,       \* UserIPStorage.userData: principal -> UserData
    ipToUsers,      \* UserIPStorage.ipToUsers: IP -> set of principals
    dirty,          \* UserIPStorage.dirty
    maxIPsPerUser,  \* UserIPStorage.maxIPsPerUser
    userDataTTL,    \* UserIPStorage.userDataTTL
    now,            \* the clock: clock.Now().Unix()
    mu,             \* who holds UserIPStorage.mu across steps ("free" if nobody)
    flush,          \* the PersistToDisk call that holds mu: its position and locals
    flushRet,       \* the error the last PersistToDisk call has returned ("nil": none)
    pendingWrites,  \* goroutines started to call PersistToDisk(false), not yet in it
    persisterPc,    \* position of runPeriodicPersister
    ioFailures,     \* how many file operations have failed so far
    file,           \* content of persistPath
    tmp,            \* content of persistPath + ".tmp"
    lastCall,       \* the last AddUserIP call: arguments, locals and result
    requests,       \* how many calls have been made on the store
    recency,        \* per principal, the IPs recorded since it was created,
                    \* most recently recorded first (kept for the LRU reference)
    persistPath,    \* Config.PersistPath
    provisionRet,   \* what Provision has returned ("none": not called yet)
    lastLoad,       \* the last LoadFromDisk call: what it read and how it ended
    cleanup,        \* Cleanup: its position, its result, and the numbers of
                    \* AddUserIP calls made and of write goroutines waiting
                    \* when it returned
    caddyfile,      \* the user_ip_tracking block (Caddyfile or JSON) the
                    \* configuration was read from
    request,        \* the last HTTP request a handler or a matcher has seen,
                    \* and what was done with it
    callers,        \* the AddUserIP calls in progress, statement by statement
    sequential,     \* the store as the AddUserIP calls leave it when they are
                    \* executed one after another, in the order they took the lock
    userDataNil,    \* UserIPStorage.userData is the nil map: a map that was
                    \* never made, which reads as empty and panics when written
    configured      \* UserIPStorage.configured: the store has its configuration

vars == <<userData, ipToUsers, dirty, maxIPsPerUser, userDataTTL, now, mu, flush,
          flushRet, pendingWrites, persisterPc, ioFailures, file, tmp, lastCall,
          requests, recency, persistPath, provisionRet, lastLoad, cleanup,
          caddyfile, request, callers, sequential, userDataNil, configured>>

\* what no handler and no goroutine changes once Provision has returned
\* (the map changes from made to nil, or back, only when a file is loaded)
startVars == <<persistPath, provisionRet, lastLoad, caddyfile, userDataNil,
               configured>>

\* ------------------------------------------------------------------------
\* Maps and slices
\* ------------------------------------------------------------------------

\* m[k] = v on a Go map
MapPut(m, k, v) == [x \in DOMAIN m \cup {k} |-> IF x = k THEN v ELSE m[x]]

\* delete(m, k) on a Go map
MapDelete(m, k) == [x \in DOMAIN m \ {k} |-> m[x]]

EmptyMap == [x \in {} |-> {}]

\* the IPs of a history, in order
IPsOf(ips) == [i \in 1..Len(ips) |-> ips[i].IP]

\* the set of IPs of a history
IPSet(ips) == {ips[i].IP : i \in 1..Len(ips)}

\* ------------------------------------------------------------------------
\* AddUserIP, step by step
\* ------------------------------------------------------------------------

\* the search loop: the first index that holds ip, 0 if there is none
FindIndex(ips, ip) ==
    IF \E i \in 1..Len(ips) : ips[i].IP = ip
    THEN CHOOSE i \in 1..Len(ips) :
            /\ ips[i].IP = ip
            /\ \A j \in 1..(i - 1) : ips[j].IP # ip
    ELSE 0

\* an IPData value
IPData(ip, t) == [IP |-> ip, LastSeen |-> t]

\* a faulty variant of MoveToFront: the entry found gets its timestamp but stays where
\* it is
MoveToFrontInPlace(ips, foundIndex, t) ==
    [ips EXCEPT ![foundIndex] = IPData(ips[foundIndex].IP, t)]

\* a faulty variant of MoveToFront: the entry found is exchanged with the first one
MoveToFrontSwap(ips, foundIndex, t) ==
    [i \in 1..Len(ips) |->
        IF i = 1 THEN IPData(ips[foundIndex].IP, t)
        ELSE IF i = foundIndex THEN ips[1]
        ELSE ips[i]]

\* the existing-IP branch: the entry at foundIndex gets timestamp t and, if it
\* is not the first, is removed from its place and prepended; a first entry is
\* rewritten in place
MoveToFront(ips, foundIndex, t) ==
    IF foundIndex > 1
    THEN <<IPData(ips[foundIndex].IP, t)>>
            \o SubSeq(ips, 1, foundIndex - 1)
            \o SubSeq(ips, foundIndex + 1, Len(ips))
    ELSE [ips EXCEPT ![1] = IPData(ips[1].IP, t)]

\* append([]IPData{newIPData}, userData.IPs...)
Prepend(ips, ip, t) == <<IPData(ip, t)>> \o ips

\* a faulty variant of NeedsTrim: the list is cut only when it is two over the bound
NeedsTrimLate(ips, max) == Len(ips) > max + 1

\* uint64(len(userData.IPs)) > s.maxIPsPerUser
NeedsTrim(ips, max) == Len(ips) > max

\* a faulty variant of RemovedIP: the first entry is taken for the evicted one
RemovedIPFirst(ips, max) == ips[1].IP

\* userData.IPs[s.maxIPsPerUser].IP, the entry logged as evicted
RemovedIP(ips, max) == ips[max + 1].IP

\* userData.IPs[:s.maxIPsPerUser]
Trim(ips, max) == SubSeq(ips, 1, max)

\* a faulty variant of RemoveUserFromIP: the bucket is kept when it becomes empty
RemoveUserKeepBucket(idx, ip, email) ==
    IF ip \in DOMAIN idx
    THEN MapPut(idx, ip, idx[ip] \ {email})
    ELSE idx

\* delete(users, email), and delete(s.ipToUsers, ip) when nobody is left
RemoveUserFromIP(idx, ip, email) ==
    IF ip \in DOMAIN idx
    THEN IF idx[ip] \ {email} = {}
         THEN MapDelete(idx, ip)
         ELSE MapPut(idx, ip, idx[ip] \ {email})
    ELSE idx

\* s.ipToUsers[ip][email] = struct{}{}, creating the bucket if it is absent
AddUserToIP(idx, ip, email) ==
    IF ip \in DOMAIN idx
    THEN MapPut(idx, ip, idx[ip] \cup {email})
    ELSE MapPut(idx, ip, {email})

\* ------------------------------------------------------------------------
\* cleanupExpiredUsers
\* ------------------------------------------------------------------------

RECURSIVE MostRecentFrom(_, _, _)
\* the loop over userData.IPs that keeps the largest LastSeen seen so far
MostRecentFrom(ips, i, acc) ==
    IF i > Len(ips) THEN acc
    ELSE MostRecentFrom(ips, i + 1,
                        IF ips[i].LastSeen > acc THEN ips[i].LastSeen ELSE acc)

\* mostRecentTime := int64(0), then the loop
MostRecentTime(ips) == MostRecentFrom(ips, 1, 0)

\* the largest uint64 and the largest int64
MaxUint64 == 2^WordBits - 1

MaxInt64 == 2^(WordBits - 1) - 1

\* int64(u) for a uint64 u: the same bits, read in two's complement
Int64OfUint64(u) == IF u > MaxInt64 THEN u - 2^WordBits ELSE u

\* an int64 result: what is left of it in the width, in two's complement
WrapInt64(i) == ((i + 2^(WordBits - 1)) % 2^WordBits) - 2^(WordBits - 1)

\* s.clock.Now().Unix() - int64(s.userDataTTL)
ExpireTime(t, ttl) == WrapInt64(t - Int64OfUint64(ttl))

\* a faulty variant of IsExpired: a principal last seen exactly at the threshold
\* expires too
IsExpiredInclusive(ips, expireTime) == MostRecentTime(ips) <= expireTime

\* mostRecentTime < expireTime
IsExpired(ips, expireTime) == MostRecentTime(ips) < expireTime

\* the principals the sweep removes
ExpiredUsers(ud, t, ttl) ==
    {u \in DOMAIN ud : IsExpired(ud[u].IPs, ExpireTime(t, ttl))}

\* (principal, IP) for every IP of every principal in users
PairsOf(ud, users) ==
    UNION {{<<u, ip>> : ip \in IPSet(ud[u].IPs)} : u \in users}

RECURSIVE RemovePairs(_, _)
\* the inner loop of the sweep, for all expired principals: each of their IPs
\* is taken out of the reverse mapping (the result does not depend on the
\* order in which the map is ranged over)
RemovePairs(idx, pairs) ==
    IF pairs = {} THEN idx
    ELSE LET pr == CHOOSE x \in pairs : TRUE
         IN RemovePairs(RemoveUserFromIP(idx, pr[2], pr[1]), pairs \ {pr})

\* a faulty variant of SweepIndex: the reverse mapping is left as it is
SweepIndexNone(idx, ud, expired) == idx

\* the reverse mapping after the sweep has removed the principals in expired
SweepIndex(idx, ud, expired) == RemovePairs(idx, PairsOf(ud, expired))

\* delete(s.userData, email) for every expired principal
SweepUsers(ud, expired) == [u \in DOMAIN ud \ expired |-> ud[u]]

\* ------------------------------------------------------------------------
\* AddUserIP as a whole: the values it leaves behind and returns
\* ------------------------------------------------------------------------

UserDataOf(ips) == [IPs |-> ips, LastSeen |-> 0]

\* the history of email, empty when the entry has just been created
HistoryOf(ud, email) == IF email \in DOMAIN ud THEN ud[email].IPs ELSE <<>>

\* a faulty variant of GoroutinesStarted: a sighting of a known IP starts no write
GoroutinesStartedNewOnly(foundIndex, expired) ==
    IF foundIndex # 0 THEN 0 ELSE 1 + Cardinality(expired)

\* the "go s.writeImmediately()" statements one call executes: one in either
\* branch of a known IP, one for a new IP, and one for every principal the
\* sweep removes
GoroutinesStarted(foundIndex, expired) ==
    IF foundIndex # 0 THEN 1 ELSE 1 + Cardinality(expired)

\* a faulty variant of SweepRuns: the sweep runs after a sighting of a known
\* IP too
SweepRunsAlways(foundIndex, ttl) == ttl > 0

\* cleanupExpiredUsers is called only on the path of a new IP (the path of
\* a known IP has returned before), and only if s.userDataTTL > 0
SweepRuns(foundIndex, ttl) == foundIndex = 0 /\ ttl > 0

\* AddUserIP when the clock shows t at the beginning of the call and tSweep
\* when cleanupExpiredUsers reads it again
AddUserIPAt(ud, idx, email, ip, t, tSweep, max, ttl) ==
    LET old        == HistoryOf(ud, email)
        foundIndex == FindIndex(old, ip)
    IN  IF foundIndex # 0
        THEN \* existing IP: timestamp, MRU move, dirty, one write goroutine
             LET ud1     == MapPut(ud, email, UserDataOf(MoveToFront(old, foundIndex, t)))
                 expired == IF SweepRuns(foundIndex, ttl)
                            THEN ExpiredUsers(ud1, tSweep, ttl) ELSE {}
             IN [userData   |-> SweepUsers(ud1, expired),
                 ipToUsers  |-> SweepIndex(idx, ud1, expired),
                 ret        |-> FALSE,
                 foundIndex |-> foundIndex,
                 removedIP  |-> NoIP,
                 expired    |-> expired,
                 unmapped   |-> PairsOf(ud1, expired),
                 spawned    |-> GoroutinesStarted(foundIndex, {})]
        ELSE LET added   == Prepend(old, ip, t)
                 trim    == NeedsTrim(added, max)
                 removed == IF trim THEN RemovedIP(added, max) ELSE NoIP
                 kept    == IF trim THEN Trim(added, max) ELSE added
                 idx1    == IF trim THEN RemoveUserFromIP(idx, removed, email) ELSE idx
                 idx2    == AddUserToIP(idx1, ip, email)
                 ud1     == MapPut(ud, email, UserDataOf(kept))
                 expired == IF SweepRuns(0, ttl)
                            THEN ExpiredUsers(ud1, tSweep, ttl) ELSE {}
             IN [userData   |-> SweepUsers(ud1, expired),
                 ipToUsers  |-> SweepIndex(idx2, ud1, expired),
                 ret        |-> TRUE,
                 foundIndex |-> 0,
                 removedIP  |-> removed,
                 expired    |-> expired,
                 unmapped   |-> PairsOf(ud1, expired),
                 spawned    |-> GoroutinesStarted(0, expired)]

\* AddUserIP when no second passes between its two readings of the clock
AddUserIP(ud, idx, email, ip, t, max, ttl) ==
    AddUserIPAt(ud, idx, email, ip, t, t, max, ttl)

\* ------------------------------------------------------------------------
\* Queries
\* ------------------------------------------------------------------------

HasIP(ip) == ip \in DOMAIN ipToUsers

\* the principals of the bucket, as a set (the slice returned has no fixed order)
GetUsersForIP(ip) == IF ip \in DOMAIN ipToUsers THEN ipToUsers[ip] ELSE {}

GetIPsForUser(email) ==
    IF email \in DOMAIN userData THEN IPsOf(userData[email].IPs) ELSE <<>>

\* ------------------------------------------------------------------------
\* The persisted file
\* ------------------------------------------------------------------------

\* a path at which there is no file
NoFile == [kind |-> "absent"]

\* what a write that failed part-way leaves behind: a prefix of the bytes
Partial == [kind |-> "partial"]

\* a header value that is not valid UTF-8 (net/http accepts the bytes 0x80 to
\* 0xFF in a header value), and the replacement character U+FFFD
InvalidUTF8 == "\\xff"

ReplacementChar == "\\ufffd"

\* a faulty variant of EncodeString: the bytes are written as they are
EncodeStringRaw(str) == str

\* encoding/json writes a string coerced to valid UTF-8: every invalid byte
\* becomes U+FFFD
EncodeString(str) == IF str = InvalidUTF8 THEN ReplacementChar ELSE str

\* the JSON array "ips" of one principal
EncodeIPs(ips) ==
    [i \in 1..Len(ips) |-> [ip |-> EncodeString(ips[i].IP), last_seen |-> ips[i].LastSeen]]

\* one member of "user_data"; "last_seen" is omitempty: present only when not 0
EncodeUser(u, d) ==
    [user      |-> u,
     ips       |-> EncodeIPs(d.IPs),
     last_seen |-> IF d.LastSeen = 0 THEN {} ELSE {d.LastSeen}]

RECURSIVE EncodeFrom(_, _)
\* the members of "user_data" from position i of the key order on
EncodeFrom(ud, i) ==
    IF i > Len(PrincipalOrder) THEN <<>>
    ELSE IF PrincipalOrder[i] \in DOMAIN ud
         THEN <<EncodeUser(PrincipalOrder[i], ud[PrincipalOrder[i]])>> \o EncodeFrom(ud, i + 1)
         ELSE EncodeFrom(ud, i + 1)

\* json.MarshalIndent(persistData{UserData: s.userData}): the keys of the map
\* in sorted order, each with its list of {ip, last_seen}
Encode(ud) == [kind |-> "json", user_data |-> EncodeFrom(ud, 1)]

\* the document {"user_data": null}, and {} where the key is missing: both
\* leave pd.UserData the nil map
NullUserData == [kind |-> "json", user_data |-> <<>>, nil |-> TRUE]

\* the document {"user_data": {}}: an empty map that has been made
EmptyUserData == [kind |-> "json", user_data |-> <<>>]

\* "user_data" is null or missing in the document
IsNilUserData(doc) == "nil" \in DOMAIN doc

\* the map as encoding/json writes it: the nil map is written as null
EncodeStore(ud, isNil) == IF isNil THEN NullUserData ELSE Encode(ud)

\* ------------------------------------------------------------------------
\* LoadFromDisk
\* ------------------------------------------------------------------------

\* An element of an "ips" array is an object [ip, last_seen], a string [str]
\* or null [null].
IsObject(e) == "ip" \in DOMAIN e

IsString(e) == "str" \in DOMAIN e

\* a file that exists and cannot be read: os.Stat or os.ReadFile fails
Unreadable == [kind |-> "unreadable"]

\* a file that holds JSON, but an array where the object is expected
WrongShape == [kind |-> "array"]

\* all the elements of all the "ips" arrays of a document
ElementsOf(doc) ==
    UNION {{doc.user_data[m].ips[i] : i \in 1..Len(doc.user_data[m].ips)} :
              m \in 1..Len(doc.user_data)}

\* the member of "user_data" with key u
MemberOf(doc, u) ==
    doc.user_data[CHOOSE m \in 1..Len(doc.user_data) : doc.user_data[m].user = u]

\* the keys of "user_data"
UsersOf(doc) == {doc.user_data[m].user : m \in 1..Len(doc.user_data)}

\* a number field that may be absent: absent leaves the zero value
NumberOf(field) == IF field = {} THEN 0 ELSE CHOOSE v \in field : TRUE

\* json.Unmarshal of one array element into an IPData: an object fills the
\* fields; null has no effect and a string cannot be stored, both leave the
\* zero value
UnmarshalIPData(e) == IF IsObject(e) THEN IPData(e.ip, e.last_seen) ELSE IPData("", 0)

\* json.Unmarshal(data, &pd), the error: a syntax error for bytes that are not
\* a JSON document, an UnmarshalTypeError when a value does not fit its Go
\* type (a string where an IPData struct is expected)
UnmarshalErr(doc) ==
    IF doc.kind = "partial" THEN "syntax"
    ELSE IF doc.kind = "array" THEN "type"
    ELSE IF \E e \in ElementsOf(doc) : IsString(e) THEN "type"
    ELSE "nil"

\* json.Unmarshal(data, &pd), the value of pd.UserData
UnmarshalUserData(doc) ==
    [u \in UsersOf(doc) |->
        [IPs      |-> [i \in 1..Len(MemberOf(doc, u).ips) |->
                          UnmarshalIPData(MemberOf(doc, u).ips[i])],
         LastSeen |-> NumberOf(MemberOf(doc, u).last_seen)]]

\* json.Unmarshal(data, &testLegacy), the error: an object where a string is
\* expected does not fit
UnmarshalLegacyErr(doc) ==
    IF doc.kind = "partial" THEN "syntax"
    ELSE IF doc.kind = "array" THEN "type"
    ELSE IF \E e \in ElementsOf(doc) : IsObject(e) THEN "type"
    ELSE "nil"

\* the IPs []string of a legacyUserData
LegacyIPs(member) ==
    [i \in 1..Len(member.ips) |->
        IF IsString(member.ips[i]) THEN member.ips[i].str ELSE ""]

\* the detection: the document has been parsed in the current format without
\* error, it has a principal, it parses in the legacy format too, and some
\* principal has a list that is not empty
NeedsMigration(doc) ==
    /\ Len(doc.user_data) > 0
    /\ UnmarshalLegacyErr(doc) = "nil"
    /\ \E u \in UsersOf(doc) : Len(LegacyIPs(MemberOf(doc, u))) > 0

\* migrateFromLegacyFormat: every IP of a principal gets the principal's
\* last_seen; the principal's own LastSeen is not set
MigrateFromLegacyFormat(doc) ==
    [u \in UsersOf(doc) |->
        UserDataOf([i \in 1..Len(MemberOf(doc, u).ips) |->
                       IPData(LegacyIPs(MemberOf(doc, u))[i],
                              NumberOf(MemberOf(doc, u).last_seen))])]

\* a faulty variant of RebuildIndex: the buckets are added to the mapping the
\* store already has
RebuildIndexOnto(ud) ==
    [ip \in DOMAIN ipToUsers \cup UNION {IPSet(ud[u].IPs) : u \in DOMAIN ud} |->
        (IF ip \in DOMAIN ipToUsers THEN ipToUsers[ip] ELSE {})
            \cup {u \in DOMAIN ud : ip \in IPSet(ud[u].IPs)}]

\* the reverse mapping rebuilt from the principals' histories, in a map that
\* is made anew
RebuildIndex(ud) ==
    [ip \in UNION {IPSet(ud[u].IPs) : u \in DOMAIN ud} |->
        {u \in DOMAIN ud : ip \in IPSet(ud[u].IPs)}]

\* the dirty flag when LoadFromDisk returns nil after reading a file:
\* migrateFromLegacyFormat sets it, and the end of LoadFromDisk clears it
DirtyAfterLoad(migrated) == FALSE

\* a faulty variant of ReturnedEarly: the maps are emptied before the file
\* is looked at
ReturnedEarlyEmptied(err, ud, idx, isDirty, isNil) ==
    [err |-> err, userData |-> EmptyMap, ipToUsers |-> EmptyMap, dirty |-> FALSE,
     migrated |-> FALSE, nil |-> FALSE]

\* LoadFromDisk returns before it has assigned anything: the file is not
\* there (err is nil), or os.Stat, os.ReadFile or json.Unmarshal has failed
ReturnedEarly(err, ud, idx, isDirty, isNil) ==
    [err |-> err, userData |-> ud, ipToUsers |-> idx, dirty |-> isDirty,
     migrated |-> FALSE, nil |-> isNil]

\* LoadFromDisk on a store that holds ud, idx, isDirty and isNil: what it
\* returns and what it leaves in the store (migrateFromLegacyFormat makes a
\* map; s.userData = pd.UserData takes the map of the document, which is nil
\* when "user_data" is null or missing)
LoadFromDisk(doc, ud, idx, isDirty, isNil) ==
    IF doc.kind = "absent" THEN ReturnedEarly("nil", ud, idx, isDirty, isNil)
    ELSE IF doc.kind = "unreadable" THEN ReturnedEarly("read", ud, idx, isDirty, isNil)
    ELSE IF UnmarshalErr(doc) # "nil"
         THEN ReturnedEarly(UnmarshalErr(doc), ud, idx, isDirty, isNil)
    ELSE LET migrate == NeedsMigration(doc)
             loaded  == IF migrate THEN MigrateFromLegacyFormat(doc)
                        ELSE UnmarshalUserData(doc)
         IN [err       |-> "nil",
             userData  |-> loaded,
             ipToUsers |-> RebuildIndex(loaded),
             dirty     |-> DirtyAfterLoad(migrate),
             migrated  |-> migrate,
             nil       |-> ~migrate /\ IsNilUserData(doc)]

\* ------------------------------------------------------------------------
\* PersistToDisk
\* ------------------------------------------------------------------------

Idle == [pc |-> "idle", force |-> FALSE, data |-> NoFile]

\* a faulty variant of ShouldSkip: force is not looked at
ShouldSkipClean(isDirty, force) == ~isDirty

\* a faulty variant of ShouldSkip: the flag is not looked at, every call writes
ShouldSkipNever(isDirty, force) == FALSE

\* !s.dirty && !force
ShouldSkip(isDirty, force) == ~isDirty /\ ~force

\* a faulty variant of DirtyAfterPersist: the flag is cleared whatever the outcome
DirtyAfterPersistCleared(isDirty, err) == FALSE

\* the dirty flag when PersistToDisk returns: reset after a successful write,
\* untouched on the error returns
DirtyAfterPersist(isDirty, err) == IF err = "nil" THEN FALSE ELSE isDirty

\* a faulty variant of TempWritten: the bytes go to the target path itself
TempWrittenToTarget(f, t, content) == [file |-> content, tmp |-> t]

\* os.WriteFile(tempFile, data, 0644): the bytes go to the temporary file
TempWritten(f, t, content) == [file |-> f, tmp |-> content]

\* a faulty variant of Renamed: the temporary file is removed and the target
\* path keeps its content
RenamedKeepsTarget(f, t) == [file |-> f, tmp |-> NoFile]

\* os.Rename(tempFile, s.persistPath)
Renamed(f, t) == [file |-> t, tmp |-> NoFile]

\* a faulty variant of CleanupAfter: Cleanup returns nil whatever the final flush
\* returned
CleanupAfterNoError(who, err) ==
    IF who = "final"
    THEN [pc |-> "done", ret |-> "nil", requests |-> requests, pending |-> pendingWrites]
    ELSE cleanup

\* Cleanup after a PersistToDisk call has returned err: the final flush is the
\* last thing Cleanup does, and its error is Cleanup's
CleanupAfter(who, err) ==
    IF who = "final"
    THEN [pc |-> "done", ret |-> err, requests |-> requests, pending |-> pendingWrites]
    ELSE cleanup

\* the caller of PersistToDisk gets its result
Returned(who, err) ==
    /\ flushRet' = err
    /\ flush' = Idle
    /\ mu' = "free"
    /\ persisterPc' = IF who = "periodic" THEN "select" ELSE persisterPc
    /\ cleanup' = CleanupAfter(who, err)

\* a faulty variant of CanLock: the mutex is not looked at
LockNotChecked(holder) == TRUE

\* s.mu.Lock() returns when nobody holds the mutex
CanLock(holder) == holder = "free"

\* PersistToDisk(force) from the lock to the first file operation
PersistBegin(who, force) ==
    /\ CanLock(mu)
    /\ IF ShouldSkip(dirty, force)
       THEN /\ flushRet' = "nil"
            /\ persisterPc' = IF who = "periodic" THEN "select" ELSE persisterPc
            /\ cleanup' = CleanupAfter(who, "nil")
            /\ UNCHANGED <<mu, flush>>
       ELSE /\ mu' = who
            /\ flush' = [pc |-> "write", force |-> force,
                         data |-> EncodeStore(userData, userDataNil)]
            /\ UNCHANGED <<flushRet, persisterPc, cleanup>>
    /\ UNCHANGED <<userData, ipToUsers, dirty, maxIPsPerUser, userDataTTL, now,
                   ioFailures, file, tmp, lastCall, requests, recency>>
    /\ UNCHANGED startVars
    /\ UNCHANGED <<request, callers, sequential>>

\* go s.writeImmediately() and ServeHTTP's go func: PersistToDisk(false)
AsyncPersist ==
    /\ pendingWrites > 0
    /\ pendingWrites' = pendingWrites - 1
    /\ PersistBegin("async", FALSE)

\* runPeriodicPersister after a tick: PersistToDisk(true)
PeriodicPersist ==
    /\ persisterPc = "persist"
    /\ PersistBegin("periodic", TRUE)
    /\ UNCHANGED pendingWrites

\* os.WriteFile to the temporary file: it succeeds, fails before a byte is
\* written, or fails part-way
PersistWriteTemp ==
    /\ mu # "free"
    /\ flush.pc = "write"
    /\ \/ /\ file' = TempWritten(file, tmp, flush.data).file
          /\ tmp' = TempWritten(file, tmp, flush.data).tmp
          /\ flush' = [flush EXCEPT !.pc = "rename"]
          /\ UNCHANGED <<mu, flushRet, persisterPc, dirty, cleanup>>
          /\ UNCHANGED ioFailures
       \/ /\ ioFailures < MaxIOFailures
          /\ ioFailures' = ioFailures + 1
          /\ \E left \in {tmp, Partial} :
                /\ file' = TempWritten(file, tmp, left).file
                /\ tmp' = TempWritten(file, tmp, left).tmp
          /\ dirty' = DirtyAfterPersist(dirty, "write")
          /\ Returned(mu, "write")
    /\ UNCHANGED <<userData, ipToUsers, maxIPsPerUser, userDataTTL, now,
                   pendingWrites, lastCall, requests, recency>>
    /\ UNCHANGED startVars
    /\ UNCHANGED <<request, callers, sequential>>

\* os.Rename, then s.dirty = false; or os.Rename fails
PersistRename ==
    /\ mu # "free"
    /\ flush.pc = "rename"
    /\ \/ /\ file' = Renamed(file, tmp).file
          /\ tmp' = Renamed(file, tmp).tmp
          /\ dirty' = DirtyAfterPersist(dirty, "nil")
          /\ Returned(mu, "nil")
          /\ UNCHANGED ioFailures
       \/ /\ ioFailures < MaxIOFailures
          /\ ioFailures' = ioFailures + 1
          /\ UNCHANGED <<file, tmp>>
          /\ dirty' = DirtyAfterPersist(dirty, "rename")
          /\ Returned(mu, "rename")
    /\ UNCHANGED <<userData, ipToUsers, maxIPsPerUser, userDataTTL, now,
                   pendingWrites, lastCall, requests, recency>>
    /\ UNCHANGED startVars
    /\ UNCHANGED <<request, callers, sequential>>

\* ------------------------------------------------------------------------
\* The periodic persister and the clock
\* ------------------------------------------------------------------------

\* case <-ticker.Chan(): the persister takes a tick; the period is minutes
\* while the clock of the model counts seconds, so a tick may come at any moment
Tick ==
    /\ persisterPc = "select"
    /\ persisterPc' = "persist"
    /\ UNCHANGED <<userData, ipToUsers, dirty, maxIPsPerUser, userDataTTL, now, mu,
                   flush, flushRet, pendingWrites, ioFailures, file, tmp, lastCall,
                   requests, recency, cleanup>>
    /\ UNCHANGED startVars
    /\ UNCHANGED <<request, callers, sequential>>

\* a second passes
AdvanceClock ==
    /\ now < MaxTime
    /\ now' = now + 1
    /\ UNCHANGED <<userData, ipToUsers, dirty, maxIPsPerUser, userDataTTL, mu, flush,
                   flushRet, pendingWrites, persisterPc, ioFailures, file, tmp,
                   lastCall, requests, recency, cleanup>>
    /\ UNCHANGED startVars
    /\ UNCHANGED <<request, callers, sequential>>

\* ------------------------------------------------------------------------
\* ServeHTTP
\* ------------------------------------------------------------------------

\* the IPs recorded for a principal, latest first, after one more Record
Recorded(seq, ip) == <<ip>> \o SelectSeq(seq, LAMBDA x : x # ip)

\* one AddUserIP call under the lock, with the write goroutines it starts and
\* extra more if the IP was newly added; the call is made while fewer than
\* maxCalls calls have been made and at most maxWaiting goroutines will wait
AddUserIPCall(email, ip, extra, maxCalls, maxWaiting) ==
    /\ requests < maxCalls
    /\ requests' = requests + 1
    /\ CanLock(mu)
    /\ ~userDataNil
    /\ LET r == AddUserIP(userData, ipToUsers, email, ip, now, maxIPsPerUser, userDataTTL)
           started == r.spawned + (IF r.ret THEN extra ELSE 0)
       IN /\ pendingWrites + started <= maxWaiting
          /\ userData' = r.userData
          /\ ipToUsers' = r.ipToUsers
          /\ dirty' = TRUE
          /\ pendingWrites' = pendingWrites + started
          /\ lastCall' = [op |-> "AddUserIP", email |-> email, ip |-> ip, ret |-> r.ret,
                          foundIndex |-> r.foundIndex, removedIP |-> r.removedIP,
                          expired |-> r.expired, unmapped |-> r.unmapped]
          /\ recency' = [u \in Principals |->
                            IF u \in r.expired THEN <<>>
                            ELSE IF u = email THEN Recorded(recency[u], ip)
                            ELSE recency[u]]
    /\ UNCHANGED <<maxIPsPerUser, userDataTTL, now, mu, flush, flushRet, persisterPc,
                   ioFailures, file, tmp, cleanup>>
    /\ UNCHANGED startVars
    /\ UNCHANGED <<callers, sequential>>

\* a request with X-Token-User-Email = email from client IP ip: AddUserIP, and
\* one more goroutine calling PersistToDisk(false) when the IP was newly added
ServeHTTP(email, ip) ==
    /\ AddUserIPCall(email, ip, 1, MaxRequests, MaxPending)
    /\ UNCHANGED request

\* Record(principal, ip): AddUserIP called on the store directly
Record(email, ip) ==
    /\ AddUserIPCall(email, ip, 0, MaxRecords, MaxRecordWrites)
    /\ UNCHANGED request

\* ------------------------------------------------------------------------
\* The system
\* ------------------------------------------------------------------------

\* a block in which every directive is written
Written(path, max, ttl) ==
    [persist_path |-> {path}, max_ips_per_user |-> {max}, user_data_ttl |-> {ttl}]

\* no request has been handled or matched
NoRequest ==
    [handler |-> "none", email |-> "", forwardedFor |-> <<>>, realIP |-> <<>>,
     remoteAddr |-> <<>>, clientIP |-> NoIP, next |-> 0, tracked |-> FALSE,
     match |-> FALSE]

\* the goroutines that may call AddUserIP at the same time
Callers == {"g1", "g2"}

\* a goroutine that is not in AddUserIP
NotCalling ==
    [pc |-> "idle", email |-> "", ip |-> NoIP, t |-> 0, trimmed |-> FALSE,
     removedIP |-> NoIP]

NoCallers == [c \in Callers |-> NotCalling]

\* NewUserIPStorage: two empty maps
EmptyStore == [userData |-> EmptyMap, ipToUsers |-> EmptyMap]

NoCall == [op |-> "none", email |-> "", ip |-> NoIP, ret |-> FALSE, foundIndex |-> 0,
           removedIP |-> NoIP, expired |-> {}, unmapped |-> {}]

\* no PersistToDisk call has returned yet
NoReturn == "none"

\* a persist_path that is not empty
DataPath == "/data/user_ips.json"

\* Cleanup has not been called
NotCleaning == [pc |-> "none", ret |-> "none", requests |-> 0, pending |-> 0]

\* after Provision with a valid configuration and no persisted file: an empty
\* store that is not dirty, the persister waiting in its select
Init ==
    /\ userData = EmptyMap
    /\ ipToUsers = EmptyMap
    /\ dirty = FALSE
    /\ maxIPsPerUser \in 1..MaxMaxIPs
    /\ userDataTTL \in 0..MaxTTL
    /\ now = 0
    /\ mu = "free"
    /\ flush = Idle
    /\ flushRet = NoReturn
    /\ pendingWrites = 0
    /\ persisterPc = "select"
    /\ ioFailures = 0
    /\ file = NoFile
    /\ tmp = NoFile
    /\ lastCall = NoCall
    /\ requests = 0
    /\ recency = [u \in Principals |-> <<>>]
    /\ persistPath = DataPath
    /\ provisionRet = "nil"
    /\ lastLoad = [doc |-> NoFile, err |-> "nil", migrated |-> FALSE]
    /\ cleanup = NotCleaning
    /\ caddyfile = Written(persistPath, maxIPsPerUser, userDataTTL)
    /\ request = NoRequest
    /\ callers = NoCallers
    /\ sequential = EmptyStore
    /\ userDataNil = FALSE
    /\ configured = TRUE

\* ------------------------------------------------------------------------
\* Provision
\* ------------------------------------------------------------------------

\* a faulty variant of ValidateConfig: max_ips_per_user is not looked at
ValidateConfigPathOnly(path, max) == IF path = "" THEN "persist_path" ELSE "nil"

\* the validation of the configuration: which setting is refused
ValidateConfig(path, max) ==
    IF path = "" THEN "persist_path"
    ELSE IF max <= 0 THEN "max_ips_per_user"
    ELSE "nil"

\* a faulty variant of PersisterAfterLoad: the persister is started whatever
\* LoadFromDisk returned
PersisterAlwaysStarted(err) == "select"

\* the periodic persister after LoadFromDisk has returned err: started only
\* when Provision goes on
PersisterAfterLoad(err) == IF err = "nil" THEN "select" ELSE "notstarted"

\* no LoadFromDisk call has been made
NoLoad == [doc |-> NoFile, err |-> "none", migrated |-> FALSE]

\* Provision in a process that has just started: the configuration is
\* validated, a new store is made and loads the file, and the periodic
\* persister is started
StartModule ==
    LET invalid == ValidateConfig(persistPath, maxIPsPerUser)
        r       == LoadFromDisk(file, EmptyMap, EmptyMap, FALSE, FALSE)
    IN  /\ IF invalid # "nil"
           THEN /\ provisionRet' = invalid
                /\ userData' = EmptyMap
                /\ ipToUsers' = EmptyMap
                /\ dirty' = FALSE
                /\ lastLoad' = NoLoad
                /\ persisterPc' = "notstarted"
                /\ userDataNil' = FALSE
                /\ configured' = FALSE
           ELSE /\ provisionRet' = IF r.err = "nil" THEN "nil" ELSE "load"
                /\ userData' = r.userData
                /\ ipToUsers' = r.ipToUsers
                /\ dirty' = r.dirty
                /\ lastLoad' = [doc |-> file, err |-> r.err, migrated |-> r.migrated]
                /\ persisterPc' = PersisterAfterLoad(r.err)
                /\ userDataNil' = r.nil
                /\ configured' = TRUE
        /\ recency' = [u \in Principals |->
                          IF u \in DOMAIN userData' THEN IPsOf(userData'[u].IPs) ELSE <<>>]
        /\ mu' = "free"
        /\ flush' = Idle
        /\ flushRet' = NoReturn
        /\ pendingWrites' = 0
        /\ lastCall' = NoCall
        /\ cleanup' = NotCleaning
        /\ UNCHANGED <<maxIPsPerUser, userDataTTL, now, ioFailures, file, tmp,
                       requests, persistPath, caddyfile, request, callers,
                       sequential>>

\* Provision, called once by the server when the configuration is loaded
Provision ==
    /\ provisionRet = "none"
    /\ StartModule

\* the process ends and a new one is started with the same configuration:
\* its goroutines are gone, its files stay, and Provision runs again
Restart ==
    /\ provisionRet = "nil"
    /\ StartModule

\* a request reaches ServeHTTP only in a module that Provision has made ready
Request(email, ip) ==
    /\ provisionRet = "nil"
    /\ AddUserIPCall(email, ip, 1, MaxLoadRequests, MaxPending)
    /\ UNCHANGED request

\* the documents that may be at persist_path when the module starts
LegacyOne ==
    [kind |-> "json",
     user_data |-> <<[user |-> "u1",
                      ips |-> <<[str |-> "1.1.1.1"], [str |-> "2.2.2.2"]>>,
                      last_seen |-> {1}]>>]

LegacyTwo ==
    [kind |-> "json",
     user_data |-> <<[user |-> "u1", ips |-> <<[str |-> "1.1.1.1"]>>, last_seen |-> {1}],
                     [user |-> "u2",
                      ips |-> <<[str |-> "3.3.3.3"], [str |-> "1.1.1.1"]>>,
                      last_seen |-> {2}]>>]

\* a legacy document whose principals have no IP
LegacyNoIPs ==
    [kind |-> "json",
     user_data |-> <<[user |-> "u1", ips |-> <<>>, last_seen |-> {1}]>>]

\* a document whose list holds null
NullElement ==
    [kind |-> "json",
     user_data |-> <<[user |-> "u1", ips |-> <<[null |-> TRUE]>>, last_seen |-> {1}]>>]

\* a document in the current format
CurrentOne ==
    [kind |-> "json",
     user_data |-> <<[user |-> "u2",
                      ips |-> <<[ip |-> "2.2.2.2", last_seen |-> 1]>>,
                      last_seen |-> {}]>>]

\* a document in the current format written under a max_ips_per_user of 4
WrittenUnderLargerMax ==
    [kind |-> "json",
     user_data |-> <<[user |-> "u1",
                      ips |-> <<[ip |-> "1.1.1.1", last_seen |-> 1],
                                [ip |-> "2.2.2.2", last_seen |-> 1],
                                [ip |-> "3.3.3.3", last_seen |-> 0],
                                [ip |-> "4.4.4.4", last_seen |-> 0]>>,
                      last_seen |-> {}]>>]

\* a document in the current format that lists an IP twice
ListsIPTwice ==
    [kind |-> "json",
     user_data |-> <<[user |-> "u1",
                      ips |-> <<[ip |-> "1.1.1.1", last_seen |-> 1],
                                [ip |-> "1.1.1.1", last_seen |-> 0]>>,
                      last_seen |-> {}]>>]

StartupFiles ==
    {NoFile, Unreadable, Partial, WrongShape, LegacyOne, LegacyTwo, LegacyNoIPs,
     NullElement, CurrentOne, WrittenUnderLargerMax, ListsIPTwice}

\* the client IPs of the requests made to a module that has loaded a file
LoadIPs == {"1.1.1.1", "2.2.2.2", InvalidUTF8}

\* a process that has started with some configuration and some file at
\* persist_path, before the server calls Provision (user_data_ttl is 0:
\* nothing expires in these runs)
InitLoad ==
    /\ userData = EmptyMap
    /\ ipToUsers = EmptyMap
    /\ dirty = FALSE
    /\ maxIPsPerUser \in 0..MaxMaxIPs
    /\ userDataTTL = 0
    /\ now = 0
    /\ mu = "free"
    /\ flush = Idle
    /\ flushRet = NoReturn
    /\ pendingWrites = 0
    /\ persisterPc = "notstarted"
    /\ ioFailures = 0
    /\ file \in StartupFiles
    /\ tmp = NoFile
    /\ lastCall = NoCall
    /\ requests = 0
    /\ recency = [u \in Principals |-> <<>>]
    /\ persistPath \in {"", DataPath}
    /\ provisionRet = "none"
    /\ lastLoad = NoLoad
    /\ cleanup = NotCleaning
    /\ caddyfile = Written(persistPath, maxIPsPerUser, userDataTTL)
    /\ request = NoRequest
    /\ callers = NoCallers
    /\ sequential = EmptyStore
    /\ userDataNil = FALSE
    /\ configured = FALSE

\* startup, requests, their write goroutines, and restarts
NextLoad ==
    \/ Provision
    \/ Restart
    \/ \E email \in Principals, ip \in LoadIPs : Request(email, ip)
    \/ AsyncPersist
    \/ PersistWriteTemp
    \/ PersistRename
    \/ (now < MaxLoadTime /\ AdvanceClock)

SpecLoad == InitLoad /\ [][NextLoad]_vars

\* ------------------------------------------------------------------------
\* Cleanup
\* ------------------------------------------------------------------------

\* a faulty variant of StopClosed: Cleanup waits without closing the channel
StopNeverClosed == FALSE

\* m.stopPersister has been closed
StopClosed == cleanup.pc # "none"

\* Cleanup begins: close(m.stopPersister)
CleanupStop ==
    /\ provisionRet = "nil"
    /\ cleanup.pc = "none"
    /\ cleanup' = [cleanup EXCEPT !.pc = "wait"]
    /\ UNCHANGED <<userData, ipToUsers, dirty, maxIPsPerUser, userDataTTL, now, mu,
                   flush, flushRet, pendingWrites, persisterPc, ioFailures, file, tmp,
                   lastCall, requests, recency>>
    /\ UNCHANGED startVars
    /\ UNCHANGED <<request, callers, sequential>>

\* case <-m.stopPersister: the loop returns (a select with several cases
\* ready takes any of them, so Tick stays possible)
PersisterStop ==
    /\ persisterPc = "select"
    /\ StopClosed
    /\ persisterPc' = "exited"
    /\ UNCHANGED <<userData, ipToUsers, dirty, maxIPsPerUser, userDataTTL, now, mu,
                   flush, flushRet, pendingWrites, ioFailures, file, tmp, lastCall,
                   requests, recency, cleanup>>
    /\ UNCHANGED startVars
    /\ UNCHANGED <<request, callers, sequential>>

\* a faulty variant of WaitReturns: Cleanup does not wait for the loop
WaitReturnsAtOnce(pc) == TRUE

\* m.persisterWg.Wait() returns once the loop has called Done
WaitReturns(pc) == pc = "exited"

\* Cleanup passes m.persisterWg.Wait()
CleanupWaited ==
    /\ cleanup.pc = "wait"
    /\ WaitReturns(persisterPc)
    /\ cleanup' = [cleanup EXCEPT !.pc = "flush"]
    /\ UNCHANGED <<userData, ipToUsers, dirty, maxIPsPerUser, userDataTTL, now, mu,
                   flush, flushRet, pendingWrites, persisterPc, ioFailures, file, tmp,
                   lastCall, requests, recency>>
    /\ UNCHANGED startVars
    /\ UNCHANGED <<request, callers, sequential>>

\* Cleanup's final persistence: PersistToDisk(true)
FinalPersist ==
    /\ cleanup.pc = "flush"
    /\ PersistBegin("final", TRUE)
    /\ UNCHANGED pendingWrites

\* a request while the module may be shutting down
ShutdownRequest(email, ip) ==
    /\ AddUserIPCall(email, ip, 1, MaxShutdownRequests, MaxPending)
    /\ UNCHANGED request

\* the module from Provision's return to the return of Cleanup
NextShutdown ==
    \/ \E email \in Principals, ip \in IPs : ShutdownRequest(email, ip)
    \/ AsyncPersist
    \/ PeriodicPersist
    \/ PersistWriteTemp
    \/ PersistRename
    \/ Tick
    \/ CleanupStop
    \/ PersisterStop
    \/ CleanupWaited
    \/ FinalPersist

SpecShutdown == Init /\ [][NextShutdown]_vars

\* ------------------------------------------------------------------------
\* Scheduling
\* ------------------------------------------------------------------------

\* a goroutine that is ready to run does run; a write goroutine waiting for
\* the mutex gets it although other flushes keep taking it (sync.Mutex hands
\* the lock to a waiter that has waited for long)
Fairness ==
    /\ SF_vars(AsyncPersist)
    /\ WF_vars(PersistWriteTemp)
    /\ WF_vars(PersistRename)

\* requests and their write goroutines, no periodic persister
NextAsync ==
    \/ \E email \in Principals, ip \in IPs : ServeHTTP(email, ip)
    \/ AsyncPersist
    \/ PersistWriteTemp
    \/ PersistRename
    \/ AdvanceClock

SpecAsync == Init /\ [][NextAsync]_vars /\ Fairness

Next ==
    \/ \E email \in Principals, ip \in IPs : ServeHTTP(email, ip)
    \/ AsyncPersist
    \/ PeriodicPersist
    \/ PersistWriteTemp
    \/ PersistRename
    \/ Tick
    \/ AdvanceClock

Spec == Init /\ [][Next]_vars

\* the values of user_data_ttl over the whole range of the field: the small
\* ones, the largest int64 and the largest uint64 (a JSON configuration is
\* decoded into a uint64; the Caddyfile takes 32 bits)
WideTTLs == (0..MaxTTL) \cup {MaxInt64, MaxUint64}

\* after Provision with a valid configuration whose user_data_ttl is any
\* uint64, and no persisted file
InitWide ==
    /\ userData = EmptyMap
    /\ ipToUsers = EmptyMap
    /\ dirty = FALSE
    /\ maxIPsPerUser \in 1..MaxMaxIPs
    /\ userDataTTL \in WideTTLs
    /\ now = 0
    /\ mu = "free"
    /\ flush = Idle
    /\ flushRet = NoReturn
    /\ pendingWrites = 0
    /\ persisterPc = "select"
    /\ ioFailures = 0
    /\ file = NoFile
    /\ tmp = NoFile
    /\ lastCall = NoCall
    /\ requests = 0
    /\ recency = [u \in Principals |-> <<>>]
    /\ persistPath = DataPath
    /\ provisionRet = "nil"
    /\ lastLoad = [doc |-> NoFile, err |-> "nil", migrated |-> FALSE]
    /\ cleanup = NotCleaning
    /\ caddyfile = Written(persistPath, maxIPsPerUser, userDataTTL)
    /\ request = NoRequest
    /\ callers = NoCallers
    /\ sequential = EmptyStore
    /\ userDataNil = FALSE
    /\ configured = TRUE

\* the store alone: Record calls and the clock, no write goroutine scheduled
NextStore ==
    \/ \E email \in Principals, ip \in IPs : Record(email, ip)
    \/ AdvanceClock

SpecStore == Init /\ [][NextStore]_vars

\* the store alone under any user_data_ttl
SpecStoreWide == InitWide /\ [][NextStore]_vars

\* the whole system under fair scheduling
SpecLive == Spec /\ Fairness

\* ------------------------------------------------------------------------
\* HTTP requests: getClientIP, the tracker's ServeHTTP and the matcher
\* ------------------------------------------------------------------------

\* A header value and RemoteAddr are strings; the model writes a string as the
\* sequence of its pieces (an address, a port, or one of the characters the
\* code looks for) so that it can be split and trimmed as the code does.
Space == " "

RECURSIVE Concat(_)
\* the string a sequence of pieces stands for
Concat(s) == IF s = <<>> THEN "" ELSE Head(s) \o Concat(Tail(s))

RECURSIVE IndexFrom(_, _, _)
\* strings.Index from position i: the first position of sep, 0 when there is none
IndexFrom(s, sep, i) ==
    IF i > Len(s) THEN 0
    ELSE IF s[i] = sep THEN i
    ELSE IndexFrom(s, sep, i + 1)

RECURSIVE LastIndexFrom(_, _, _)
\* strings.LastIndex, looking from position i down
LastIndexFrom(s, sep, i) ==
    IF i < 1 THEN 0
    ELSE IF s[i] = sep THEN i
    ELSE LastIndexFrom(s, sep, i - 1)

RECURSIVE Split(_, _)
\* strings.Split(s, sep): the pieces between the separators, empty ones included
Split(s, sep) ==
    LET i == IndexFrom(s, sep, 1)
    IN  IF i = 0 THEN <<s>>
        ELSE <<SubSeq(s, 1, i - 1)>> \o Split(SubSeq(s, i + 1, Len(s)), sep)

RECURSIVE TrimLeft(_)
TrimLeft(s) == IF s # <<>> /\ Head(s) = Space THEN TrimLeft(Tail(s)) ELSE s

RECURSIVE TrimRight(_)
TrimRight(s) ==
    IF s # <<>> /\ s[Len(s)] = Space THEN TrimRight(SubSeq(s, 1, Len(s) - 1)) ELSE s

\* strings.TrimSpace
TrimSpace(s) == TrimRight(TrimLeft(s))

\* net.SplitHostPort: the host before the last colon, without its brackets;
\* an error when there is no port, a bracket is not closed before the colon,
\* or a host without brackets holds a colon
SplitHostPort(addr) ==
    LET i       == LastIndexFrom(addr, ":", Len(addr))
        failed  == [host |-> <<>>, err |-> TRUE]
    IN  IF i = 0 THEN failed
        ELSE IF addr[1] = "["
             THEN LET e == IndexFrom(addr, "]", 1)
                  IN IF e = 0 \/ e + 1 # i THEN failed
                     ELSE [host |-> SubSeq(addr, 2, e - 1), err |-> FALSE]
             ELSE IF IndexFrom(SubSeq(addr, 1, i - 1), ":", 1) # 0 THEN failed
                  ELSE [host |-> SubSeq(addr, 1, i - 1), err |-> FALSE]

\* a faulty variant of getClientIP: X-Real-IP is looked at before
\* X-Forwarded-For
getClientIPRealFirst(r) ==
    IF r.realIP # <<>> THEN Concat(r.realIP)
    ELSE IF r.forwardedFor # <<>> THEN Concat(TrimSpace(Split(r.forwardedFor, ",")[1]))
    ELSE IF SplitHostPort(r.remoteAddr).err THEN Concat(r.remoteAddr)
    ELSE Concat(SplitHostPort(r.remoteAddr).host)

\* getClientIP: X-Forwarded-For, then X-Real-IP, then RemoteAddr
getClientIP(r) ==
    IF r.forwardedFor # <<>> THEN Concat(TrimSpace(Split(r.forwardedFor, ",")[1]))
    ELSE IF r.realIP # <<>> THEN Concat(r.realIP)
    ELSE IF SplitHostPort(r.remoteAddr).err THEN Concat(r.remoteAddr)
    ELSE Concat(SplitHostPort(r.remoteAddr).host)

\* the values of X-Token-User-Email; Header.Get gives "" for a header that is
\* not there
Emails == {""} \cup Principals

\* the values of X-Forwarded-For: not there, " 1.1.1.1 , 2.2.2.2", ",3.3.3.3"
ForwardedFors ==
    {<<>>, <<Space, "1.1.1.1", Space, ",", Space, "2.2.2.2">>, <<",", "3.3.3.3">>}

\* the values of X-Real-IP
RealIPs == {<<>>, <<"3.3.3.3">>}

\* the values of RemoteAddr: "2.2.2.2:8080", "2.2.2.2" and "[::1]:8080"
RemoteAddrs ==
    {<<"2.2.2.2", ":", "8080">>, <<"2.2.2.2">>, <<"[", "::1", "]", ":", "8080">>}

HTTPRequests ==
    [email : Emails, forwardedFor : ForwardedFors, realIP : RealIPs,
     remoteAddr : RemoteAddrs]

\* what a handler has done with the request r
Handled(r, handler, clientIP, next, tracked, match) ==
    [handler |-> handler, email |-> r.email, forwardedFor |-> r.forwardedFor,
     realIP |-> r.realIP, remoteAddr |-> r.remoteAddr, clientIP |-> clientIP,
     next |-> next, tracked |-> tracked, match |-> match]

\* a faulty variant of HasEmail: a request without the header is tracked too
HasEmailAlways(email) == TRUE

\* email != ""
HasEmail(email) == email # ""

\* UserIpTracking.ServeHTTP: a request without X-Token-User-Email goes to the
\* next handler; any other is recorded under its client IP, starts one more
\* write goroutine when the IP is new, and goes to the next handler
TrackerServeHTTP(r) ==
    /\ provisionRet = "nil"
    /\ IF HasEmail(r.email)
       THEN /\ AddUserIPCall(r.email, getClientIP(r), 1, MaxTracked, MaxPending)
            /\ request' = Handled(r, "tracker", getClientIP(r), 1, TRUE, FALSE)
       ELSE /\ request' = Handled(r, "tracker", NoIP, 1, FALSE, FALSE)
            /\ UNCHANGED <<userData, ipToUsers, dirty, maxIPsPerUser, userDataTTL,
                           now, mu, flush, flushRet, pendingWrites, persisterPc,
                           ioFailures, file, tmp, lastCall, requests, recency,
                           cleanup, callers, sequential>>
            /\ UNCHANGED startVars

\* globalStorage != nil: Provision sets it once the configuration is valid,
\* before it loads the file
GlobalStorageSet == provisionRet \in {"nil", "load"}

\* a faulty variant of CanRLock: the mutex is not looked at
RLockNotChecked(holder) == TRUE

\* s.mu.RLock() returns when no writer holds the mutex
CanRLock(holder) == holder = "free"

\* a faulty variant of MatchResult: once there is a store every request matches
MatchResultAnyClient(hasStorage, hasIP) == hasStorage

\* what MatchWithError returns
MatchResult(hasStorage, hasIP) == IF hasStorage THEN hasIP ELSE FALSE

\* UserIPMatcher.MatchWithError: the client IP is looked up in the store of
\* the tracker, if there is one
MatchWithError(r) ==
    /\ GlobalStorageSet => CanRLock(mu)
    /\ request' = Handled(r, "matcher", getClientIP(r), 0, FALSE,
                          MatchResult(GlobalStorageSet, HasIP(getClientIP(r))))
    /\ UNCHANGED <<userData, ipToUsers, dirty, maxIPsPerUser, userDataTTL, now, mu,
                   flush, flushRet, pendingWrites, persisterPc, ioFailures, file,
                   tmp, lastCall, requests, recency, cleanup, callers, sequential>>
    /\ UNCHANGED startVars

\* UnmarshalCaddyfile: the fields of the module after the block has been
\* read; a directive that is not written leaves the zero value of its field
\* (the arguments are those strconv.ParseUint accepts)
UnmarshalCaddyfile(block) ==
    [PersistPath   |-> IF block.persist_path = {} THEN ""
                       ELSE CHOOSE v \in block.persist_path : TRUE,
     MaxIpsPerUser |-> NumberOf(block.max_ips_per_user),
     UserDataTTL   |-> NumberOf(block.user_data_ttl)]

\* the user_ip_tracking blocks of the model: each directive is written or not
Blocks ==
    [persist_path     : {{}, {DataPath}},
     max_ips_per_user : {{}} \cup {{n} : n \in 0..MaxMaxIPs},
     user_data_ttl    : {{}, {MaxTTL}}]

\* a process that has read its Caddyfile, with or without a file at
\* persist_path, before the server calls Provision
InitRequest ==
    /\ caddyfile \in Blocks
    /\ persistPath = UnmarshalCaddyfile(caddyfile).PersistPath
    /\ maxIPsPerUser = UnmarshalCaddyfile(caddyfile).MaxIpsPerUser
    /\ userDataTTL = UnmarshalCaddyfile(caddyfile).UserDataTTL
    /\ file \in {NoFile, CurrentOne}
    /\ userData = EmptyMap
    /\ ipToUsers = EmptyMap
    /\ dirty = FALSE
    /\ now = 0
    /\ mu = "free"
    /\ flush = Idle
    /\ flushRet = NoReturn
    /\ pendingWrites = 0
    /\ persisterPc = "notstarted"
    /\ ioFailures = 0
    /\ tmp = NoFile
    /\ lastCall = NoCall
    /\ requests = 0
    /\ recency = [u \in Principals |-> <<>>]
    /\ provisionRet = "none"
    /\ lastLoad = NoLoad
    /\ cleanup = NotCleaning
    /\ request = NoRequest
    /\ callers = NoCallers
    /\ sequential = EmptyStore
    /\ userDataNil = FALSE
    /\ configured = FALSE

\* startup, then requests that pass through the tracker and the matcher
NextRequest ==
    \/ Provision
    \/ \E r \in HTTPRequests : TrackerServeHTTP(r)
    \/ \E r \in HTTPRequests : MatchWithError(r)

SpecRequest == InitRequest /\ [][NextRequest]_vars

\* ------------------------------------------------------------------------
\* AddUserIP statement by statement, called from several goroutines
\* ------------------------------------------------------------------------

\* The steps of one call: it waits at s.mu.Lock() ("lock"), takes the lock and
\* reads the clock ("history"), updates the history of the principal
\* ("index", or it returns when the IP was known), updates the reverse
\* mapping ("sweep", or it returns when expiry is off), reads the clock
\* again, sweeps and returns. Seconds may pass between any two steps.
\* lastCall and recency belong to the calls made in one step and are not
\* kept here.

\* a goroutine calls AddUserIP(email, ip) and reaches s.mu.Lock()
CallEnter(c, email, ip) ==
    /\ callers[c].pc = "idle"
    /\ requests < MaxConcurrentCalls
    /\ requests' = requests + 1
    /\ callers' = [callers EXCEPT ![c] =
                      [NotCalling EXCEPT !.pc = "lock", !.email = email, !.ip = ip]]
    /\ UNCHANGED <<userData, ipToUsers, dirty, maxIPsPerUser, userDataTTL, now, mu,
                   flush, flushRet, pendingWrites, persisterPc, ioFailures, file,
                   tmp, lastCall, recency, cleanup, request, sequential>>
    /\ UNCHANGED startVars

\* s.mu.Lock() returns and the clock is read
CallLock(c) ==
    /\ callers[c].pc = "lock"
    /\ CanLock(mu)
    /\ mu' = c
    /\ callers' = [callers EXCEPT ![c].pc = "history", ![c].t = now]
    /\ UNCHANGED <<userData, ipToUsers, dirty, maxIPsPerUser, userDataTTL, now, flush,
                   flushRet, pendingWrites, persisterPc, ioFailures, file, tmp,
                   lastCall, requests, recency, cleanup, request, sequential>>
    /\ UNCHANGED startVars

\* the deferred s.mu.Unlock(); the calls return in the order in which they
\* took the lock, and the store run one call after another has now made this
\* call as a whole, with the same two readings of the clock
CallReturn(c) ==
    /\ mu' = "free"
    /\ callers' = [callers EXCEPT ![c] = NotCalling]
    /\ LET r == AddUserIPAt(sequential.userData, sequential.ipToUsers,
                            callers[c].email, callers[c].ip, callers[c].t, now,
                            maxIPsPerUser, userDataTTL)
       IN sequential' = [userData |-> r.userData, ipToUsers |-> r.ipToUsers]

\* the entry of the principal is made or found and its history updated: a
\* known IP is refreshed and moved to the front and the call returns; a new
\* one is prepended and the history cut to the bound
CallHistory(c) ==
    /\ callers[c].pc = "history"
    /\ LET email      == callers[c].email
           old        == HistoryOf(userData, email)
           foundIndex == FindIndex(old, callers[c].ip)
           added      == Prepend(old, callers[c].ip, callers[c].t)
           trim       == NeedsTrim(added, maxIPsPerUser)
       IN IF foundIndex # 0
          THEN /\ userData' = MapPut(userData, email,
                                     UserDataOf(MoveToFront(old, foundIndex, callers[c].t)))
               /\ dirty' = TRUE
               /\ pendingWrites' = pendingWrites + GoroutinesStarted(foundIndex, {})
               /\ CallReturn(c)
          ELSE /\ userData' = MapPut(userData, email,
                                 UserDataOf(IF trim THEN Trim(added, maxIPsPerUser)
                                            ELSE added))
               /\ callers' = [callers EXCEPT
                                 ![c].pc = "index",
                                 ![c].trimmed = trim,
                                 ![c].removedIP = IF trim THEN RemovedIP(added, maxIPsPerUser)
                                                  ELSE NoIP]
               /\ UNCHANGED <<dirty, pendingWrites, mu, sequential>>
    /\ UNCHANGED <<ipToUsers, maxIPsPerUser, userDataTTL, now, flush, flushRet,
                   persisterPc, ioFailures, file, tmp, lastCall, requests, recency,
                   cleanup, request>>
    /\ UNCHANGED startVars

\* the evicted IP is taken out of the reverse mapping and the new one put in,
\* the flag is set and a write goroutine started
CallIndex(c) ==
    /\ callers[c].pc = "index"
    /\ ipToUsers' = AddUserToIP(IF callers[c].trimmed
                                THEN RemoveUserFromIP(ipToUsers, callers[c].removedIP,
                                                      callers[c].email)
                                ELSE ipToUsers,
                                callers[c].ip, callers[c].email)
    /\ dirty' = TRUE
    /\ pendingWrites' = pendingWrites + GoroutinesStarted(0, {})
    /\ IF userDataTTL > 0
       THEN /\ callers' = [callers EXCEPT ![c].pc = "sweep"]
            /\ UNCHANGED <<mu, sequential>>
       ELSE CallReturn(c)
    /\ UNCHANGED <<userData, maxIPsPerUser, userDataTTL, now, flush, flushRet,
                   persisterPc, ioFailures, file, tmp, lastCall, requests, recency,
                   cleanup, request>>
    /\ UNCHANGED startVars

\* s.cleanupExpiredUsers(), then the call returns
CallSweep(c) ==
    /\ callers[c].pc = "sweep"
    /\ LET expired == ExpiredUsers(userData, now, userDataTTL)
       IN /\ userData' = SweepUsers(userData, expired)
          /\ ipToUsers' = SweepIndex(ipToUsers, userData, expired)
          /\ pendingWrites' = pendingWrites + Cardinality(expired)
    /\ CallReturn(c)
    /\ UNCHANGED <<dirty, maxIPsPerUser, userDataTTL, now, flush, flushRet,
                   persisterPc, ioFailures, file, tmp, lastCall, requests, recency,
                   cleanup, request>>
    /\ UNCHANGED startVars

\* the requests the matcher sees while calls overlap: no email, no
\* X-Forwarded-For, from 2.2.2.2:8080, with or without X-Real-IP
MatcherRequests ==
    {r \in HTTPRequests :
        /\ r.email = ""
        /\ r.forwardedFor = <<>>
        /\ r.remoteAddr = <<"2.2.2.2", ":", "8080">>}

\* goroutines in AddUserIP at the same time, the matcher reading, and the clock
NextConcurrent ==
    \/ \E c \in Callers, email \in Principals, ip \in IPs : CallEnter(c, email, ip)
    \/ \E c \in Callers : CallLock(c)
    \/ \E c \in Callers : CallHistory(c)
    \/ \E c \in Callers : CallIndex(c)
    \/ \E c \in Callers : CallSweep(c)
    \/ \E r \in MatcherRequests : MatchWithError(r)
    \/ AdvanceClock

SpecConcurrent == Init /\ [][NextConcurrent]_vars

\* ------------------------------------------------------------------------
\* LoadFromDisk on a store in use
\* ------------------------------------------------------------------------

\* the files at persist_path when LoadFromDisk is called on a store in use
ReloadFiles ==
    {NoFile, Unreadable, Partial, WrongShape, LegacyOne, LegacyNoIPs, CurrentOne,
     WrittenUnderLargerMax, NullUserData, EmptyUserData}

\* a store that has been made with its maps, and some file at persist_path
InitReload ==
    /\ userData = EmptyMap
    /\ ipToUsers = EmptyMap
    /\ dirty = FALSE
    /\ maxIPsPerUser \in 1..MaxMaxIPs
    /\ userDataTTL = 0
    /\ now = 0
    /\ mu = "free"
    /\ flush = Idle
    /\ flushRet = NoReturn
    /\ pendingWrites = 0
    /\ persisterPc = "notstarted"
    /\ ioFailures = 0
    /\ file \in ReloadFiles
    /\ tmp = NoFile
    /\ lastCall = NoCall
    /\ requests = 0
    /\ recency = [u \in Principals |-> <<>>]
    /\ persistPath = DataPath
    /\ provisionRet = "none"
    /\ lastLoad = NoLoad
    /\ cleanup = NotCleaning
    /\ caddyfile = Written(persistPath, maxIPsPerUser, userDataTTL)
    /\ request = NoRequest
    /\ callers = NoCallers
    /\ sequential = EmptyStore
    /\ userDataNil = FALSE
    /\ configured = TRUE

\* LoadFromDisk called on the store, under the write lock
LoadFromDiskCall ==
    /\ requests < MaxRecords
    /\ requests' = requests + 1
    /\ CanLock(mu)
    /\ LET r == LoadFromDisk(file, userData, ipToUsers, dirty, userDataNil)
       IN /\ userData' = r.userData
          /\ ipToUsers' = r.ipToUsers
          /\ dirty' = r.dirty
          /\ userDataNil' = r.nil
          /\ lastLoad' = [doc |-> file, err |-> r.err, migrated |-> r.migrated]
          /\ recency' = [u \in Principals |->
                            IF u \in DOMAIN r.userData
                            THEN IPsOf(r.userData[u].IPs) ELSE <<>>]
    /\ lastCall' = [NoCall EXCEPT !.op = "LoadFromDisk"]
    /\ UNCHANGED <<maxIPsPerUser, userDataTTL, now, mu, flush, flushRet,
                   pendingWrites, persisterPc, ioFailures, file, tmp, cleanup,
                   persistPath, provisionRet, caddyfile, configured, request,
                   callers, sequential>>

\* AddUserIP on a store whose map is nil: s.userData[email] reads as absent,
\* the assignment s.userData[email] = userData panics ("assignment to entry
\* in nil map"), and the deferred Unlock releases the lock
AddUserIPPanics(email, ip) ==
    /\ requests < MaxRecords
    /\ requests' = requests + 1
    /\ CanLock(mu)
    /\ userDataNil
    /\ lastCall' = [NoCall EXCEPT !.op = "panic", !.email = email, !.ip = ip]
    /\ UNCHANGED <<userData, ipToUsers, dirty, maxIPsPerUser, userDataTTL, now, mu,
                   flush, flushRet, pendingWrites, persisterPc, ioFailures, file,
                   tmp, recency, cleanup, request, callers, sequential>>
    /\ UNCHANGED startVars

\* Record and LoadFromDisk calls on one store, in any order
NextReload ==
    \/ \E email \in Principals, ip \in IPs : Record(email, ip)
    \/ \E email \in Principals, ip \in IPs : AddUserIPPanics(email, ip)
    \/ LoadFromDiskCall

SpecReload == InitReload /\ [][NextReload]_vars

\* ------------------------------------------------------------------------
\* Shutdown under fair scheduling
\* ------------------------------------------------------------------------

\* the scheduling of a shutdown: a select with several cases ready takes one
\* at random, so the stop case, ready at every return to the select, is taken
\* in the end; a caller waiting for the mutex gets it; Wait returns once the
\* loop is done; a flush that has begun goes on to its return
FairShutdown ==
    /\ SF_vars(PersisterStop)
    /\ SF_vars(PeriodicPersist)
    /\ SF_vars(FinalPersist)
    /\ WF_vars(CleanupWaited)
    /\ WF_vars(PersistWriteTemp)
    /\ WF_vars(PersistRename)

SpecShutdownLive == SpecShutdown /\ FairShutdown

\* ------------------------------------------------------------------------
\* Configure on the store that getStorage returns
\* ------------------------------------------------------------------------

\* the store as getStorage makes it: the two maps, and the zero value in
\* every other field
InitConfigure ==
    /\ userData = EmptyMap
    /\ ipToUsers = EmptyMap
    /\ dirty = FALSE
    /\ maxIPsPerUser = 0
    /\ userDataTTL = 0
    /\ now = 0
    /\ mu = "free"
    /\ flush = Idle
    /\ flushRet = NoReturn
    /\ pendingWrites = 0
    /\ persisterPc = "notstarted"
    /\ ioFailures = 0
    /\ file = NoFile
    /\ tmp = NoFile
    /\ lastCall = NoCall
    /\ requests = 0
    /\ recency = [u \in Principals |-> <<>>]
    /\ persistPath = ""
    /\ provisionRet = "none"
    /\ lastLoad = NoLoad
    /\ cleanup = NotCleaning
    /\ caddyfile = Written(persistPath, maxIPsPerUser, userDataTTL)
    /\ request = NoRequest
    /\ callers = NoCallers
    /\ sequential = EmptyStore
    /\ userDataNil = FALSE
    /\ configured = FALSE

\* another path a caller may configure
OtherPath == "/data/other.json"

\* a faulty variant of AlreadyConfigured: the flag is not looked at
AlreadyConfiguredIgnored(flag) == FALSE

\* if s.configured { return false }
AlreadyConfigured(flag) == flag

\* Configure(persistPath, maxIPsPerUser, userDataTTL, clock, logger), under
\* the write lock: the first call stores its arguments, sets configured and
\* clears dirty; a later call returns false
Configure(path, max, ttl) ==
    /\ requests < MaxRecords
    /\ requests' = requests + 1
    /\ CanLock(mu)
    /\ IF AlreadyConfigured(configured)
       THEN /\ lastCall' = [op |-> "Configure", ret |-> FALSE, persistPath |-> path,
                            maxIPsPerUser |-> max, userDataTTL |-> ttl]
            /\ UNCHANGED <<persistPath, maxIPsPerUser, userDataTTL, configured, dirty>>
       ELSE /\ lastCall' = [op |-> "Configure", ret |-> TRUE, persistPath |-> path,
                            maxIPsPerUser |-> max, userDataTTL |-> ttl]
            /\ persistPath' = path
            /\ maxIPsPerUser' = max
            /\ userDataTTL' = ttl
            /\ configured' = TRUE
            /\ dirty' = FALSE
    /\ UNCHANGED <<userData, ipToUsers, now, mu, flush, flushRet, pendingWrites,
                   persisterPc, ioFailures, file, tmp, recency, cleanup,
                   provisionRet, lastLoad, caddyfile, userDataNil, request, callers,
                   sequential>>

\* Configure calls with any arguments at any moment, Record calls on the
\* configured store (before Configure the clock and the logger are nil), and
\* the write goroutines the Records start
NextConfigure ==
    \/ \E path \in {DataPath, OtherPath}, max \in 1..MaxMaxIPs, ttl \in 0..MaxTTL :
          Configure(path, max, ttl)
    \/ \E email \in Principals, ip \in IPs : configured /\ Record(email, ip)
    \/ AsyncPersist
    \/ PersistWriteTemp
    \/ PersistRename

SpecConfigure == InitConfigure /\ [][NextConfigure]_vars

\* ------------------------------------------------------------------------
\* Vocabulary of the properties
\* ------------------------------------------------------------------------

\* the tracked principals whose history contains ip
Holders(ud, ip) == {u \in DOMAIN ud : ip \in IPSet(ud[u].IPs)}

\* the first n elements of a sequence
Take(seq, n) == SubSeq(seq, 1, IF Len(seq) < n THEN Len(seq) ELSE n)

\* the timestamp of the most recent sighting in a history that is not empty
LatestSighting(ips) ==
    CHOOSE t \in {ips[i].LastSeen : i \in 1..Len(ips)} :
        \A i \in 1..Len(ips) : ips[i].LastSeen <= t

\* this step is an AddUserIP call
IsCall == requests' = requests + 1

\* this step is a PersistToDisk call returning after it had taken the lock
\* and passed the dirty check
IsPersistReturn == flush.pc # "idle" /\ flush'.pc = "idle"

\* ------------------------------------------------------------------------
\* Properties
\* ------------------------------------------------------------------------

\* C1: from an empty store, whatever Record calls are made, no history is
\* longer than max_ips_per_user and no history lists an IP twice.
C1_HistoryBoundedAndDistinct ==
    \A u \in DOMAIN userData :
        /\ Len(userData[u].IPs) <= maxIPsPerUser
        /\ \A i, j \in 1..Len(userData[u].IPs) :
              i # j => userData[u].IPs[i].IP # userData[u].IPs[j].IP

\* C1 witness: a call has evicted an entry and left a history of two or more
\* entries that is exactly as long as the bound
C1_Witness ==
    /\ lastCall.removedIP # NoIP
    /\ maxIPsPerUser >= 2
    /\ lastCall.email \in DOMAIN userData
    /\ Len(userData[lastCall.email].IPs) = maxIPsPerUser

\* C2: in every state reached by requests (with their evictions and expiry
\* sweeps) and flushes, HasIP(ip) is true exactly when some tracked principal
\* has ip in its history.
C2_HasIPIffHeld ==
    \A ip \in IPs : HasIP(ip) <=> Holders(userData, ip) # {}

\* C2 witness: an evicted IP no longer satisfies HasIP while a flush that
\* started after the eviction is between its temporary file and its rename
C2_Witness ==
    /\ lastCall.removedIP # NoIP
    /\ ~HasIP(lastCall.removedIP)
    /\ HasIP(lastCall.ip)
    /\ flush.pc = "rename"

\* C3: with TTL disabled, IPsForUser(p) is the list of the distinct IPs
\* recorded for p, the most recently recorded first, cut to the first
\* max_ips_per_user; timestamps play no part in the order.
C3_MatchesLRUReference ==
    userDataTTL = 0 =>
        \A u \in Principals : GetIPsForUser(u) = Take(recency[u], maxIPsPerUser)

\* C3 witness: TTL disabled, the last call moved an entry up from behind, the
\* principal has recorded more IPs than the bound, and the first two entries
\* carry the same timestamp second
C3_Witness ==
    /\ userDataTTL = 0
    /\ lastCall.foundIndex > 1
    /\ Len(recency[lastCall.email]) > maxIPsPerUser
    /\ userData[lastCall.email].IPs[1].LastSeen = userData[lastCall.email].IPs[2].LastSeen

\* C4: Record(p, ip) for an IP already in p's history returns false, puts the
\* entry at position 0 with timestamp now, keeps the other entries in their
\* order, and leaves the length of the history and the reverse index as they
\* were.
C4_RerecordMovesToFront ==
    [][(/\ IsCall
        /\ lastCall'.email \in DOMAIN userData
        /\ lastCall'.ip \in IPSet(userData[lastCall'.email].IPs))
       => LET p   == lastCall'.email
              ip  == lastCall'.ip
              old == userData[p].IPs
          IN /\ lastCall'.ret = FALSE
             /\ p \in DOMAIN userData'
             /\ Len(userData'[p].IPs) = Len(old)
             /\ userData'[p].IPs[1] = [IP |-> ip, LastSeen |-> now]
             /\ Tail(userData'[p].IPs) = SelectSeq(old, LAMBDA e : e.IP # ip)
             /\ ipToUsers' = ipToUsers]_vars

\* C4 witness: the last call found its IP at the third place of the history
\* and returned false
C4_Witness ==
    /\ lastCall.op = "AddUserIP"
    /\ lastCall.ret = FALSE
    /\ lastCall.foundIndex = 3

\* C5: Record(p, ip) for an IP that p does not have, when p's history is
\* full, returns true and evicts exactly the last entry; the evicted IP
\* satisfies HasIP afterwards only if another principal has it, and is then
\* mapped to those principals only.
C5_EvictsOldest ==
    [][(/\ IsCall
        /\ lastCall'.email \in DOMAIN userData
        /\ lastCall'.ip \notin IPSet(userData[lastCall'.email].IPs)
        /\ Len(userData[lastCall'.email].IPs) = maxIPsPerUser)
       => LET p       == lastCall'.email
              old     == userData[p].IPs
              evicted == old[maxIPsPerUser].IP
              others  == Holders(userData', evicted) \ {p}
          IN /\ lastCall'.ret = TRUE
             /\ lastCall'.removedIP = evicted
             /\ p \in DOMAIN userData'
             /\ userData'[p].IPs =
                    <<[IP |-> lastCall'.ip, LastSeen |-> now]>>
                        \o SubSeq(old, 1, maxIPsPerUser - 1)
             /\ (evicted \in DOMAIN ipToUsers') <=> (others # {})
             /\ (evicted \in DOMAIN ipToUsers') => ipToUsers'[evicted] = others]_vars

\* C5 witness: the last call evicted an IP that another principal still has
C5_Witness ==
    /\ lastCall.removedIP # NoIP
    /\ HasIP(lastCall.removedIP)
    /\ lastCall.email \notin GetUsersForIP(lastCall.removedIP)

\* C6: with user_data_ttl > 0, when a Record call that adds a new IP returns,
\* every other principal last seen before now - ttl is gone from the store and
\* from every bucket of the reverse index, every other principal last seen at
\* or after now - ttl is tracked with its history untouched, and the recording
\* principal is tracked.
C6_SweepRemovesExactlyExpired ==
    [][(IsCall /\ lastCall'.ret = TRUE /\ userDataTTL > 0)
       => /\ lastCall'.email \in DOMAIN userData'
          /\ \A q \in DOMAIN userData \ {lastCall'.email} :
                IF LatestSighting(userData[q].IPs) < now - userDataTTL
                THEN /\ q \notin DOMAIN userData'
                     /\ \A ip \in DOMAIN ipToUsers' : q \notin ipToUsers'[ip]
                ELSE /\ q \in DOMAIN userData'
                     /\ userData'[q] = userData[q]]_vars

\* C6 witness: the sweep of the last call has removed a principal and taken
\* its IPs out of the reverse index
C6_Witness ==
    /\ userDataTTL > 0
    /\ lastCall.ret = TRUE
    /\ lastCall.expired # {}
    /\ lastCall.unmapped # {}
    /\ lastCall.email \in DOMAIN userData

\* C7: UsersForIP(ip) is exactly the set of tracked principals whose history
\* contains ip, also when two principals share an IP and when one of them has
\* been removed by expiry.
C7_UsersForIPExact ==
    \A ip \in IPs : GetUsersForIP(ip) = Holders(userData, ip)

\* C7 witness: the sweep has removed a principal that shared an IP with the
\* recording principal, which had that IP from an earlier call, and the IP is
\* now mapped to the recording principal only
C7_Witness ==
    \E pr \in lastCall.unmapped :
        /\ pr[2] # lastCall.ip
        /\ GetUsersForIP(pr[2]) = {lastCall.email}

\* this step is the periodic persister making its PersistToDisk call
IsPeriodicCall ==
    /\ mu = "free"
    /\ persisterPc = "persist"
    /\ (mu' = "periodic" \/ persisterPc' = "select")

\* this step is a write goroutine making its PersistToDisk(false) call
IsAsyncCall == pendingWrites' = pendingWrites - 1

\* C8: Flush(false) with the dirty flag false writes nothing and returns
\* success; Flush(true) goes on to write the encoding of the current snapshot
\* whether the flag is set or not, so that the file holds it when the call
\* succeeds; every tick of the periodic persister makes such a forced call.
C8_FlushGate ==
    [][/\ (IsAsyncCall /\ ~dirty)
            => /\ file' = file
               /\ tmp' = tmp
               /\ flushRet' = "nil"
               /\ mu' = "free"
               /\ flush' = flush
       /\ IsPeriodicCall
            => /\ mu' = "periodic"
               /\ flush'.force
               /\ flush'.pc = "write"
               /\ flush'.data = Encode(userData)
       /\ (IsPersistReturn /\ flush.force /\ flushRet' = "nil")
            => /\ file' = Encode(userData)
               /\ file' = flush.data]_vars

\* C8 witness: a forced flush made while the dirty flag is false, after
\* requests have been recorded and written, has written its temporary file
C8_Witness ==
    /\ mu = "periodic"
    /\ flush.force
    /\ ~dirty
    /\ flush.pc = "rename"
    /\ tmp = Encode(userData)
    /\ userData # EmptyMap

\* C9 as stated: after a flush has failed, the dirty flag is set.
C9_FailedFlushSetsDirty ==
    flushRet \in {"write", "rename"} => dirty

\* C9 as amended: a flush that fails at the temporary file or at the rename
\* returns the error, leaves the target path alone and leaves the dirty flag
\* as it found it: the flag is set afterwards whenever it was set before,
\* which is the case of every failed non-forced flush.
C9_FailedFlushKeepsDirty ==
    [][(IsPersistReturn /\ ~(flush.pc = "rename" /\ tmp' = NoFile))
       => /\ flushRet' \in {"write", "rename"}
          /\ flushRet' = (IF flush.pc = "write" THEN "write" ELSE "rename")
          /\ file' = file
          /\ dirty' = dirty
          /\ (~flush.force => dirty')]_vars

\* C9 witness: after a failed flush that left the flag set, a non-forced
\* flush is writing again
C9_Witness ==
    /\ flushRet \in {"write", "rename"}
    /\ dirty
    /\ mu = "async"
    /\ flush.pc = "write"

\* C10: the target path changes only by the rename of a flush, and then to
\* the complete encoding of the snapshot that flush took; a write that fails,
\* or stops before the rename, leaves the target path as it was.
C10_TargetOnlyByRename ==
    [][file' # file
       => /\ flush.pc = "rename"
          /\ file' = flush.data
          /\ file' = Encode(userData)
          /\ file'.kind = "json"]_vars

\* C10 witness: a write has failed part-way, leaving a partial temporary
\* file, while the target path holds the complete encoding written earlier
C10_Witness ==
    /\ tmp = Partial
    /\ file.kind = "json"
    /\ file # Encode(userData)
    /\ flushRet = "write"

\* this step is a process starting: Provision, or a restart
IsStart ==
    /\ provisionRet \in {"none", "nil"}
    /\ provisionRet' # "none"
    /\ lastCall' = NoCall
    /\ flushRet' = NoReturn
    /\ pendingWrites' = 0
    /\ mu' = "free"
    /\ now' = now
    /\ (lastLoad' = NoLoad \/ lastLoad'.doc = file)

\* the strings of a store: its principals and the IPs of their histories
StringsOf(ud) == DOMAIN ud \cup UNION {IPSet(ud[u].IPs) : u \in DOMAIN ud}

\* C11: when the file holds the flush of the store's state and a fresh store
\* loads it, the fresh store has the same principals with the same ordered
\* (ip, last_seen) histories, and the same reverse index.
C11_RoundTrip ==
    [][(IsStart /\ provisionRet = "nil" /\ file = Encode(userData))
       => /\ provisionRet' = "nil"
          /\ userData' = userData
          /\ ipToUsers' = ipToUsers]_vars

\* C11 for stores whose strings are all valid UTF-8 and whose reverse index
\* agrees with the histories: the round trip is exact.
C11_RoundTripValidUTF8 ==
    [][(/\ IsStart
        /\ provisionRet = "nil"
        /\ file = Encode(userData)
        /\ InvalidUTF8 \notin StringsOf(userData)
        /\ ipToUsers = RebuildIndex(userData))
       => /\ provisionRet' = "nil"
          /\ userData' = userData
          /\ ipToUsers' = ipToUsers]_vars

\* a store of two principals with a shared IP has been flushed and loaded
\* again by a new process
C11_Reloaded ==
    /\ lastLoad.err = "nil"
    /\ lastLoad.doc = Encode(userData)
    /\ requests = MaxLoadRequests
    /\ Cardinality(DOMAIN userData) = 2
    /\ \E ip \in DOMAIN ipToUsers : Cardinality(ipToUsers[ip]) = 2

\* a document in the legacy format: every principal has a list of IP strings
\* and a last_seen of its own
IsLegacyFile(doc) ==
    /\ doc.kind = "json"
    /\ \A e \in ElementsOf(doc) : IsString(e)
    /\ \A u \in UsersOf(doc) : MemberOf(doc, u).last_seen # {}

\* this step is a process starting with a valid configuration, so that
\* LoadFromDisk is called
IsLoad == IsStart /\ lastLoad' # NoLoad

\* C12: LoadFromDisk of a file in the legacy format succeeds and gives every
\* principal the IPs of its list, in their order, each with the principal's
\* legacy last_seen as its timestamp.
C12_LegacyFileMigrated ==
    [][(IsLoad /\ IsLegacyFile(file))
       => /\ lastLoad'.err = "nil"
          /\ DOMAIN userData' = UsersOf(file)
          /\ \A u \in UsersOf(file) :
                userData'[u].IPs =
                    [i \in 1..Len(MemberOf(file, u).ips) |->
                        [IP       |-> MemberOf(file, u).ips[i].str,
                         LastSeen |-> NumberOf(MemberOf(file, u).last_seen)]]]_vars

\* C13: when LoadFromDisk returns after it has migrated the file, the dirty
\* flag is true.
C13_MigrationLeavesDirty ==
    [][(IsLoad /\ lastLoad'.migrated) => dirty']_vars

\* C14: when the file exists and cannot be read, or cannot be decoded,
\* LoadFromDisk returns an error and Provision fails with it without
\* starting the periodic persister; from then on the persister is not
\* running, no request is tracked and nothing is written.
C14_LoadFailureStopsProvision ==
    [][/\ (IsLoad /\ file.kind \in {"unreadable", "partial", "array"})
            => /\ lastLoad'.err \in {"read", "syntax", "type"}
               /\ provisionRet' = "load"
               /\ persisterPc' = "notstarted"
               /\ userData' = EmptyMap
               /\ ipToUsers' = EmptyMap
               /\ file' = file
       /\ provisionRet = "load"
            => /\ provisionRet' = "load"
               /\ persisterPc' = "notstarted"
               /\ requests' = requests
               /\ pendingWrites' = 0
               /\ userData' = userData
               /\ file' = file
               /\ tmp' = tmp]_vars

\* C14 witness: Provision has failed on a file that is cut short, and time
\* has passed since
C14_Witness ==
    /\ provisionRet = "load"
    /\ lastLoad.doc = Partial
    /\ lastLoad.err = "syntax"
    /\ now > 0

\* the errors of Provision for a configuration it refuses
ConfigErrors == {"persist_path", "max_ips_per_user"}

\* C15: Provision fails when persist_path is empty or max_ips_per_user is 0;
\* the file is then not loaded, the periodic persister is not started, and
\* nothing is written then or later.
C15_InvalidConfigRefused ==
    [][/\ (IsStart /\ (persistPath = "" \/ maxIPsPerUser = 0))
            => /\ provisionRet' \in ConfigErrors
               /\ lastLoad' = NoLoad
               /\ persisterPc' = "notstarted"
               /\ userData' = EmptyMap
               /\ file' = file
               /\ tmp' = tmp
       /\ provisionRet \in ConfigErrors
            => /\ provisionRet' = provisionRet
               /\ lastLoad' = NoLoad
               /\ persisterPc' = "notstarted"
               /\ requests' = requests
               /\ pendingWrites' = 0
               /\ userData' = EmptyMap
               /\ file' = file
               /\ tmp' = tmp]_vars

\* C15 witness: Provision has refused max_ips_per_user = 0 while a file that
\* could be loaded is at persist_path, and time has passed since
C15_Witness ==
    /\ provisionRet = "max_ips_per_user"
    /\ persistPath # ""
    /\ file = CurrentOne
    /\ userData = EmptyMap
    /\ now > 0

C17_ChangesReachFile ==
    [](ioFailures = 0)
        => /\ <>[](requests > 0 => file = Encode(userData))
           /\ ((requests > 0 /\ file # Encode(userData)) ~> file = Encode(userData))

\* C17 witness: after two requests, the second of which evicted an IP, and
\* no I/O failure, the file holds the encoding of the store and no write is
\* waiting or running
C17_Witness ==
    /\ requests = MaxRequests
    /\ lastCall.removedIP # NoIP
    /\ ioFailures = 0
    /\ pendingWrites = 0
    /\ mu = "free"
    /\ file = Encode(userData)

\* C18: the final forced flush of Cleanup begins only after the stop signal
\* has been given and the periodic loop has exited; the loop, once exited,
\* stays so, so that no periodic flush overlaps with the final flush or runs
\* after it.
C18_ShutdownOrder ==
    [][/\ (cleanup'.pc \in {"flush", "done"} \/ mu' = "final")
            => (persisterPc' = "exited" /\ mu' # "periodic")
       /\ persisterPc' = "exited" => StopClosed'
       /\ persisterPc = "exited" => persisterPc' = "exited"
       /\ cleanup.pc = "none" => cleanup'.pc \in {"none", "wait"}
       /\ cleanup.pc = "wait" => cleanup'.pc \in {"wait", "flush"}
       /\ cleanup.pc = "flush" => cleanup'.pc \in {"flush", "done"}
       /\ cleanup.pc = "done" => cleanup'.pc = "done"]_vars

\* C18 witness: Cleanup was called while a periodic flush was between its
\* temporary file and its rename
C18_Witness ==
    /\ cleanup.pc = "wait"
    /\ mu = "periodic"
    /\ flush.pc = "rename"

\* C19: once the stop signal has been given, the periodic loop takes no
\* further tick.
C19_NoTickAfterStop ==
    [][StopClosed => ~(persisterPc = "select" /\ persisterPc' = "persist")]_vars

\* C20: when Cleanup has returned without error and no Record has been
\* issued since, the file holds the encoding of the store and the dirty flag
\* is clear, also after a write goroutine that was still waiting when Cleanup
\* returned has run.
C20_FileCurrentAfterCleanup ==
    (cleanup.pc = "done" /\ cleanup.ret = "nil" /\ requests = cleanup.requests)
        => (file = Encode(userData) /\ ~dirty)

\* C20 witness: Cleanup has returned without error after two requests, and
\* all the write goroutines that were waiting at that moment have run since
C20_Witness ==
    /\ cleanup.pc = "done"
    /\ cleanup.ret = "nil"
    /\ requests = cleanup.requests
    /\ requests = MaxShutdownRequests
    /\ cleanup.pending > 1
    /\ pendingWrites = 0
    /\ mu = "free"

\* a PersistToDisk call is at a file operation: the document is encoded
\* and is being written to the temporary file or renamed
DiskWriteInProgress == flush.pc \in {"write", "rename"}

\* C21: no Record and no HasIP call ever has to wait for a disk write: while
\* a flush is writing its temporary file or renaming it, the store's mutex
\* can be taken at once.
C21_NoCallWaitsForDisk == DiskWriteInProgress => CanLock(mu)

\* the durable projection of a user map: principal -> ordered list of
\* (ip, last_seen)
Projection(ud) == [u \in DOMAIN ud |-> ud[u].IPs]

\* what a file holds, read in the current schema; a file that is absent holds
\* no principal, and one that cannot be decoded holds no projection at all
HeldBy(doc) ==
    IF doc.kind = "absent" THEN EmptyMap
    ELSE IF doc.kind = "json" /\ UnmarshalErr(doc) = "nil"
         THEN Projection(UnmarshalUserData(doc))
         ELSE doc

\* C22: in every state of a module that Provision has made ready (after a
\* load, a migration, requests, expiry sweeps, successful and failed flushes),
\* when the dirty flag is false the durable projection of memory equals what
\* the file at persist_path holds in the current schema.
C22_CleanMeansFileCurrent ==
    (provisionRet = "nil" /\ ~dirty) => Projection(userData) = HeldBy(file)

\* this step is the tracker's ServeHTTP handling a request without
\* X-Token-User-Email
IsHeaderlessRequest ==
    /\ request' # request
    /\ request'.handler = "tracker"
    /\ request'.email = ""

\* C23: a request without the X-Token-User-Email header is passed to the next
\* handler and changes nothing: no principal and no IP is recorded, the dirty
\* flag is not set, no AddUserIP call is made and no write is scheduled.
C23_HeaderlessRequestPassesThrough ==
    [][IsHeaderlessRequest =>
          /\ request'.next = 1
          /\ ~request'.tracked
          /\ userData' = userData
          /\ ipToUsers' = ipToUsers
          /\ dirty' = dirty
          /\ requests' = requests
          /\ pendingWrites' = pendingWrites
          /\ lastCall' = lastCall
          /\ file' = file]_vars

\* C23 witness: a request without the header, carrying an X-Forwarded-For
\* address the store does not know, has gone to the next handler of a module
\* that had recorded another request before and is still clean of that address
C23_Witness ==
    /\ request.handler = "tracker"
    /\ request.email = ""
    /\ request.next = 1
    /\ request.forwardedFor # <<>>
    /\ getClientIP(request) = "1.1.1.1"
    /\ ~HasIP("1.1.1.1")
    /\ requests = 1

\* the first element of a comma-separated value without the blanks around it,
\* by positions: what lies between the first and the last piece that is not
\* a blank, before the first comma
FirstTrimmed(s) ==
    LET commas == {i \in 1..Len(s) : s[i] = ","}
        end    == IF commas = {} THEN Len(s)
                  ELSE (CHOOSE i \in commas : \A j \in commas : i <= j) - 1
        body   == {i \in 1..end : s[i] # Space}
    IN  IF body = {} THEN <<>>
        ELSE SubSeq(s, CHOOSE i \in body : \A j \in body : i <= j,
                       CHOOSE i \in body : \A j \in body : i >= j)

\* the host part of an address "host:port" or "[host]:port"; an address of
\* another form has no port to take off
HostPart(addr) ==
    IF Len(addr) >= 3 /\ addr[Len(addr) - 1] = ":"
    THEN IF addr[1] = "[" /\ addr[Len(addr) - 2] = "]"
         THEN SubSeq(addr, 2, Len(addr) - 3)
         ELSE SubSeq(addr, 1, Len(addr) - 2)
    ELSE addr

\* the handler has worked out the client IP of the request
ClientIPTaken ==
    \/ request.handler = "matcher"
    \/ request.handler = "tracker" /\ request.tracked

\* C24: the client IP is the first trimmed element of X-Forwarded-For when
\* that header is not empty, otherwise X-Real-IP when it is not empty,
\* otherwise the host part of RemoteAddr; the tracker records under it and
\* the matcher looks it up.
C24_ClientIPByPriority ==
    ClientIPTaken =>
        /\ request.forwardedFor # <<>> =>
              request.clientIP = Concat(FirstTrimmed(request.forwardedFor))
        /\ (request.forwardedFor = <<>> /\ request.realIP # <<>>) =>
              request.clientIP = Concat(request.realIP)
        /\ (request.forwardedFor = <<>> /\ request.realIP = <<>>) =>
              request.clientIP = Concat(HostPart(request.remoteAddr))
        /\ request.handler = "tracker" =>
              /\ lastCall.ip = request.clientIP
              /\ lastCall.email = request.email
              /\ request.clientIP \in IPSet(userData[request.email].IPs)

\* C24 witness: the tracker has recorded a request that carried both
\* X-Forwarded-For and X-Real-IP under the first X-Forwarded-For address
C24_Witness ==
    /\ request.handler = "tracker"
    /\ request.tracked
    /\ request.forwardedFor # <<>>
    /\ request.realIP # <<>>
    /\ request.clientIP = "1.1.1.1"
    /\ HasIP("1.1.1.1")
    /\ ~HasIP("3.3.3.3")

\* this step is the matcher deciding on a request
IsMatch == request' # request /\ request'.handler = "matcher"

\* C25: the user_ip matcher matches a request exactly when the tracker's
\* store exists and HasIP(client IP) is true at the time of the match; with
\* no store it matches nothing.
C25_MatchIffStoreHasIP ==
    [][IsMatch =>
          /\ request'.match <=> (GlobalStorageSet /\ HasIP(request'.clientIP))
          /\ ~GlobalStorageSet => ~request'.match]_vars

\* C25 witness: the matcher has matched the address under which the tracker
\* recorded the request before
C25_Witness ==
    /\ request.handler = "matcher"
    /\ request.match
    /\ lastCall.op = "AddUserIP"
    /\ request.clientIP = lastCall.ip
    /\ HasIP(request.clientIP)

\* the default of max_ips_per_user the documentation gives
DefaultMaxIPs == 5

\* C26: max_ips_per_user is optional: when the directive is omitted from a
\* block that names a persist_path, Provision succeeds and the store keeps at
\* most 5 IPs per user.
C26_OmittedMaxDefaultsToFive ==
    (/\ caddyfile.max_ips_per_user = {}
     /\ caddyfile.persist_path # {}
     /\ provisionRet # "none")
        => /\ provisionRet = "nil"
           /\ maxIPsPerUser = DefaultMaxIPs
           /\ \A u \in DOMAIN userData : Len(userData[u].IPs) <= DefaultMaxIPs

\* C27: concurrent PersistToDisk calls are serialized and each writes the
\* memory of one instant: the lock goes from one holder to the next only
\* through "free", nothing changes the maps while a flush holds it, the
\* document a flush has encoded equals memory until the flush returns, and a
\* flush that returns nil leaves the file equal to memory and the flag false.
C27_FlushWritesOneInstant ==
    [][/\ mu' # mu => (mu = "free" \/ mu' = "free")
       /\ mu # "free" => (userData' = userData /\ ipToUsers' = ipToUsers)
       /\ flush.pc # "idle" => flush.data = Encode(userData)
       /\ (IsPersistReturn /\ flushRet' = "nil") =>
             /\ file' = flush.data
             /\ file' = Encode(userData')
             /\ ~dirty']_vars

\* C27 witness: a flush is about to rename its temporary file while a write
\* goroutine waits for the lock, the periodic persister is about to call
\* PersistToDisk too, and two requests have been recorded
C27_Witness ==
    /\ flush.pc = "rename"
    /\ pendingWrites > 0
    /\ persisterPc = "persist"
    /\ requests = 2
    /\ tmp = Encode(userData)
    /\ file # tmp

\* C28: AddUserIP calls made at the same time take effect one at a time in
\* the order in which they took the lock: whenever the lock is free the
\* histories, the timestamps and the reverse mapping are those the same
\* calls leave when each is run as a whole in that order, and HasIP, called
\* at any moment by the matcher, answers from a state in which the histories
\* and the reverse mapping agree.
C28_CallsTakeEffectInLockOrder ==
    [][/\ mu' # mu => (mu = "free" \/ mu' = "free")
       /\ mu' = "free" =>
             /\ userData' = sequential'.userData
             /\ ipToUsers' = sequential'.ipToUsers
       /\ IsMatch =>
             /\ \A ip \in IPs : HasIP(ip) <=> Holders(userData, ip) # {}
             /\ request'.match <=> Holders(userData, request'.clientIP) # {}
             /\ userData = sequential.userData
             /\ ipToUsers = sequential.ipToUsers]_vars

\* C28 witness: one goroutine is in the sweep of its call, having evicted
\* an entry, another waits for the lock, and the matcher had matched a
\* request before
C28_Witness ==
    /\ \E c, d \in Callers :
          /\ callers[c].pc = "sweep"
          /\ callers[c].trimmed
          /\ callers[d].pc = "lock"
    /\ request.handler = "matcher"
    /\ request.match
    /\ requests = MaxConcurrentCalls

\* C29: when Record(p, ip) returns, whatever it returns, p is tracked, ip is
\* at position 0 of p's history with the timestamp now, and HasIP(ip) is
\* true, also when the call has evicted an entry and when it has run the
\* expiry sweep.
C29_RecordedIPFirstAfterRecord ==
    [][IsCall =>
          /\ lastCall'.email \in DOMAIN userData'
          /\ Len(userData'[lastCall'.email].IPs) >= 1
          /\ userData'[lastCall'.email].IPs[1] = IPData(lastCall'.ip, now)
          /\ lastCall'.ip \in DOMAIN ipToUsers'
          /\ lastCall'.email \in ipToUsers'[lastCall'.ip]]_vars

\* C30: in every state of a module that Provision has made ready, whatever
\* decodable file it has loaded (one written under a larger
\* max_ips_per_user, one that lists an IP twice) and whatever requests have
\* followed, no principal has more than max_ips_per_user entries and no
\* history lists an IP twice.
C30_BoundAndUniquenessAfterLoad ==
    provisionRet = "nil" =>
        \A u \in DOMAIN userData :
            /\ Len(userData[u].IPs) <= maxIPsPerUser
            /\ Cardinality(IPSet(userData[u].IPs)) = Len(userData[u].IPs)

\* C31: in every state of a module that Provision has made ready, also
\* after it has loaded a file whose histories exceed max_ips_per_user and a
\* request has cut such a history, every IP of the reverse index is listed
\* in the history of every principal of its bucket, and no bucket is empty.
C31_IndexExactAfterLoadAndTrim ==
    provisionRet = "nil" =>
        \A ip \in DOMAIN ipToUsers :
            /\ ipToUsers[ip] # {}
            /\ \A u \in ipToUsers[ip] :
                  /\ u \in DOMAIN userData
                  /\ ip \in IPSet(userData[u].IPs)

\* the principals this step removes from the store
RemovedPrincipals == DOMAIN userData \ DOMAIN userData'

\* C32: principals are removed by the expiry sweep only, and the sweep runs
\* only in a Record call that adds a new IP while user_data_ttl > 0: no
\* other step, and no Record of an IP the principal has already, removes a
\* principal or changes the reverse index, however long ago a principal was
\* last seen.
C32_OnlyNewIPRecordSweeps ==
    [][/\ RemovedPrincipals # {} =>
             /\ IsCall
             /\ lastCall'.ret = TRUE
             /\ userDataTTL > 0
             /\ RemovedPrincipals = lastCall'.expired
       /\ ~(IsCall /\ lastCall'.ret = TRUE) =>
             /\ ipToUsers' = ipToUsers
             /\ RemovedPrincipals = {}
       /\ ~IsCall => userData' = userData]_vars

\* C32 witness: a principal last seen before now - ttl is still tracked and
\* its IP still satisfies HasIP after another principal has recorded, at the
\* present second, an IP it had already
C32_Witness ==
    /\ userDataTTL > 0
    /\ lastCall.op = "AddUserIP"
    /\ lastCall.ret = FALSE
    /\ lastCall.email \in DOMAIN userData
    /\ userData[lastCall.email].IPs[1].LastSeen = now
    /\ \E q \in DOMAIN userData \ {lastCall.email} :
          /\ LatestSighting(userData[q].IPs) < now - userDataTTL
          /\ \A i \in 1..Len(userData[q].IPs) : HasIP(userData[q].IPs[i].IP)

\* this step is a LoadFromDisk call on a store in use
IsLoadCall == requests' = requests + 1 /\ lastCall'.op = "LoadFromDisk"

\* the IP and the timestamp that element i of the "ips" array of u says
FileIP(doc, u, i) ==
    LET e == MemberOf(doc, u).ips[i] IN IF "ip" \in DOMAIN e THEN e.ip ELSE ""

FileLastSeen(doc, u, i) ==
    LET e == MemberOf(doc, u).ips[i] IN IF "ip" \in DOMAIN e THEN e.last_seen ELSE 0

\* the IPs that the document lists for u
FileIPs(doc, u) == {FileIP(doc, u, i) : i \in 1..Len(MemberOf(doc, u).ips)}

C34_FailedLoadChangesNothing ==
    [][(IsLoadCall /\ (lastLoad'.err # "nil" \/ file.kind = "absent")) =>
          /\ userData' = userData
          /\ ipToUsers' = ipToUsers
          /\ dirty' = dirty
          /\ userDataNil' = userDataNil
          /\ file.kind = "absent" => lastLoad'.err = "nil"]_vars

\* a store with unsaved records has been asked to load a file that does not
\* parse, and still has them
C34_Witness ==
    /\ lastCall.op = "LoadFromDisk"
    /\ lastLoad.err \in {"read", "syntax", "type"}
    /\ dirty
    /\ DOMAIN userData = {"u1", "u2"}
    /\ HasIP("1.1.1.1")

\* a store with unsaved records has been asked to load a file that is not
\* there
C34_WitnessAbsent ==
    /\ lastCall.op = "LoadFromDisk"
    /\ lastLoad.doc = NoFile
    /\ lastLoad.err = "nil"
    /\ dirty
    /\ userData # EmptyMap

\* this step is a Record made right after a LoadFromDisk that returned nil on
\* a file that exists
IsRecordAfterLoad ==
    /\ requests' = requests + 1
    /\ lastCall'.op \in {"AddUserIP", "panic"}
    /\ lastCall.op = "LoadFromDisk"
    /\ lastLoad.err = "nil"
    /\ lastLoad.doc.kind # "absent"

\* C35: after LoadFromDisk has succeeded on a file that parses, a document
\* with an empty, null or missing user_data included, a following
\* Record(p, ip) completes normally and leaves p tracked with ip, and it
\* returns true when the file listed nothing for p.
C35_RecordAfterLoadCompletes ==
    [][IsRecordAfterLoad =>
          /\ lastCall'.op = "AddUserIP"
          /\ lastCall'.email \in DOMAIN userData'
          /\ lastCall'.ip \in IPSet(userData'[lastCall'.email].IPs)
          /\ lastCall'.ip \in DOMAIN ipToUsers'
          /\ lastCall'.email \in ipToUsers'[lastCall'.ip]
          /\ lastCall'.email \notin DOMAIN userData => lastCall'.ret = TRUE]_vars

\* the same for the files whose user_data is a map, empty or not: the case
\* in which the Record does complete
C35_RecordAfterLoadOfMapCompletes ==
    [][(IsRecordAfterLoad /\ ~IsNilUserData(lastLoad.doc)) =>
          /\ lastCall'.op = "AddUserIP"
          /\ lastCall'.email \in DOMAIN userData'
          /\ lastCall'.ip \in IPSet(userData'[lastCall'.email].IPs)
          /\ lastCall'.email \notin DOMAIN userData => lastCall'.ret = TRUE]_vars

\* C36: the file at the target path never regresses. Whatever the
\* interleaving of write goroutines, periodic writes and Record calls, the
\* target changes only when a PersistToDisk returns nil, and the document it
\* gets is memory as it is at that very step: a later write never carries an
\* older memory than an earlier one. A PersistToDisk that fails leaves the
\* target as it was.
C36_FileNeverRegresses ==
    [][/\ file' # file =>
             /\ IsPersistReturn
             /\ flushRet' = "nil"
             /\ mu \in {"async", "periodic"}
             /\ requests' = requests
             /\ userData' = userData
             /\ file' = Encode(userData)
       /\ (IsPersistReturn /\ flushRet' # "nil") => file' = file]_vars

\* the periodic persister is about to replace the document of an earlier
\* successful write with a later memory, while a write goroutine waits
C36_Witness ==
    /\ flush.pc = "rename"
    /\ mu = "periodic"
    /\ pendingWrites > 0
    /\ file.kind = "json"
    /\ tmp = Encode(userData)
    /\ file # tmp
    /\ requests = 2

\* C37: the dirty flag prevents redundant I/O. A non-forced flush goes on to
\* write only when the flag is set; a flush that succeeds clears it; only a
\* Record sets it again (the expiry sweep runs inside a Record); and a
\* non-forced flush that finds it clear, such as the second write goroutine
\* of a request that added an IP, touches neither the file nor the temporary
\* file and returns nil. So between two Records at most one non-forced flush
\* writes the file.
C37_CleanFlagStopsWrites ==
    [][/\ (mu = "free" /\ mu' = "async") => dirty
       /\ (IsPersistReturn /\ flushRet' = "nil") => ~dirty'
       /\ (~dirty /\ dirty') => (IsCall /\ lastCall'.op = "AddUserIP")
       /\ (IsAsyncCall /\ ~dirty) =>
             /\ UNCHANGED <<file, tmp, userData, ipToUsers, dirty, flush, mu>>
             /\ flushRet' = "nil"
       /\ (mu = "async" /\ IsPersistReturn /\ flushRet' = "nil") =>
             /\ file' = Encode(userData)
             /\ ~dirty']_vars

\* one request has added an IP and started two write goroutines; both have
\* run without an I/O failure, so the first wrote the file and the second
\* found the flag clear
C37_Witness ==
    /\ requests = 1
    /\ lastCall.ret = TRUE
    /\ pendingWrites = 0
    /\ ioFailures = 0
    /\ mu = "free"
    /\ flushRet = "nil"
    /\ ~dirty
    /\ file = Encode(userData)

\* C38: once the stop signal has been given, and every flush that has begun
\* completes, the loop of the periodic persister exits and Cleanup returns,
\* whatever ticks arrive in the meantime and whether the flushes succeed or
\* fail.
C38_ShutdownTerminates ==
    /\ (cleanup.pc # "none") ~> (persisterPc = "exited")
    /\ (cleanup.pc # "none") ~> (cleanup.pc = "done" /\ persisterPc = "exited")

\* the loop has exited and Cleanup has returned after two requests, some of
\* whose write goroutines have not run yet
C38_Witness ==
    /\ cleanup.pc = "done"
    /\ persisterPc = "exited"
    /\ flushRet # "none"
    /\ requests = MaxShutdownRequests
    /\ pendingWrites > 0

\* this step is a Configure call
IsConfigure == requests' = requests + 1 /\ lastCall'.op = "Configure"

\* C39: Configure applies a configuration only on its first call. The first
\* call returns true and stores its arguments; every later call, whenever it
\* gets the lock, returns false and leaves persist path, max_ips_per_user,
\* user_data_ttl, the dirty flag and all tracked data as they were.
C39_ConfigureAppliesOnce ==
    [][/\ IsConfigure =>
             /\ lastCall'.ret = ~configured
             /\ configured'
             /\ userData' = userData
             /\ ipToUsers' = ipToUsers
             /\ configured =>
                   /\ persistPath' = persistPath
                   /\ maxIPsPerUser' = maxIPsPerUser
                   /\ userDataTTL' = userDataTTL
                   /\ dirty' = dirty
             /\ ~configured =>
                   /\ persistPath' = lastCall'.persistPath
                   /\ maxIPsPerUser' = lastCall'.maxIPsPerUser
                   /\ userDataTTL' = lastCall'.userDataTTL
       /\ configured => configured'
       /\ ~IsConfigure => UNCHANGED <<persistPath, maxIPsPerUser, userDataTTL,
                                       configured>>]_vars

\* a second Configure with other arguments has returned false on a store
\* that holds unsaved records, while a write goroutine waits
C39_Witness ==
    /\ lastCall.op = "Configure"
    /\ lastCall.ret = FALSE
    /\ lastCall.persistPath # persistPath
    /\ lastCall.maxIPsPerUser # maxIPsPerUser
    /\ lastCall.userDataTTL # userDataTTL
    /\ dirty
    /\ DOMAIN userData = {"u1", "u2"}
    /\ pendingWrites > 0

====
